---- MODULE Spec2Model ----
(***************************************************************************)
(* A model of the Crossplay engine: the board (engine/board.py), the       *)
(* GADDAG in tree and packed form (engine/gaddag.py,                       *)
(* engine/gaddag_compact.py), the scorer (engine/scoring.py) and the move  *)
(* generator (engine/move_finder.py, bots/base_engine.py).                 *)
(*                                                                         *)
(* Strings are sequences of one-character strings.  The models take        *)
(* upper-case input only, on which str.upper() changes nothing.            *)
(***************************************************************************)
EXTENDS Integers, Sequences, FiniteSets, TLC

VARIABLES
    grid,            \* Board._grid, as the function from its occupied cells to their letters
    undo_stack,      \* the lists returned by place_move and not yet undone
    grid_stack,      \* history: the grid as it was before each of those place_move calls
    last_call,       \* history: the last Board call, its arguments and its outcome
    calls,           \* number of Board calls made so far
    dict_words,      \* the word set the GADDAG was built from
    gaddag,          \* GADDAG: the trie built by build_from_words
    cdata,           \* CompactGADDAG._data built from it (<<>> before the build)
    answer,          \* history: the last is_word query and its two answers
    blanks_on_board, \* play_game's blanks_on_board: list of <<row, col, letter>>
    scored,          \* history: the last scored play, the position it was scored
                     \* on and the results of both scorers
    plays,           \* number of plays laid on the board so far
    cur_rack,        \* play_game's rack of the player to move (<<>> between turns)
    best_found,      \* what find_best_score_opt returned for the turn (<<>> before it ran)
    moves,           \* the list get_legal_moves returned for that rack
    file,            \* the bytes of the file at the path given to CompactGADDAG.load
    loaded,          \* history: the outcome of the last CompactGADDAG.load
    w_rng,           \* a worker process: the state of its random module
    w_task,          \* the _worker_eval_candidate call it is running (NoTask when idle)
    w_sim,           \* that call's locals: sim_i, n_sims, running_sum, running_sum_sq
    w_done,          \* history: the last two calls it finished, with what each returned
    _pool,           \* dadbot's global _pool: None or the worker pool
    p_call,          \* the DadBot.pick_move call: its path, candidates and work items
    p_futures,       \* the futures of the submitted tasks: pending, done or raised
    p_order,         \* history: the tasks in the order they finished
    p_ctl,           \* the call's collect loop: i, the best so far, the results, and
                     \* (history) what the loop saw of each future
    p_out,           \* how the call ended: the move returned, or an exception
    game,            \* play_game's locals: engines, racks, scores, bag, player_idx,
                     \* move_number, consecutive_passes, final_turns_left
    bot,             \* the engine.pick_move call play_game is waiting for
    endgame          \* a worker's _worker_eval_near_endgame call: its locals, and
                     \* (history) what it did for each opponent rack

board_vars == <<grid, undo_stack, grid_stack, last_call, calls>>
gaddag_vars == <<dict_words, gaddag, cdata, answer>>
score_vars == <<blanks_on_board, scored, plays>>
move_vars == <<cur_rack, moves, best_found>>
engine_vars == <<board_vars, gaddag_vars, score_vars, move_vars>>
load_vars == <<file, loaded>>
worker_vars == <<w_rng, w_task, w_sim, w_done>>
pick_vars == <<_pool, p_call, p_futures, p_order, p_ctl, p_out>>
game_vars == <<game, bot>>
near_vars == <<endgame>>
outer_vars == <<load_vars, worker_vars, pick_vars, game_vars, near_vars>>
pick_rest == <<engine_vars, load_vars, worker_vars, game_vars, near_vars>>
vars == <<engine_vars, outer_vars>>

(***************************************************************************)
(* engine/config.py                                                        *)
(***************************************************************************)
BOARD_SIZE == 15
CENTER_ROW == 8
CENTER_COL == 8
RACK_SIZE == 7
BINGO_BONUS == 40

None == "None"

ALPHABET == <<"A", "B", "C", "D", "E", "F", "G", "H", "I", "J", "K", "L", "M",
              "N", "O", "P", "Q", "R", "S", "T", "U", "V", "W", "X", "Y", "Z">>

LetterSet == {ALPHABET[i] : i \in 1..26}

(***************************************************************************)
(* Generic helpers                                                         *)
(***************************************************************************)
Range(s) == {s[i] : i \in 1..Len(s)}

Reverse(s) == [i \in 1..Len(s) |-> s[Len(s) + 1 - i]]

\* The concatenation seqs[lo] \o ... \o seqs[hi], by halving
RECURSIVE FlattenRange(_, _, _)
FlattenRange(seqs, lo, hi) ==
    IF lo > hi
    THEN <<>>
    ELSE IF lo = hi
         THEN seqs[lo]
         ELSE LET mid == (lo + hi) \div 2
              IN  FlattenRange(seqs, lo, mid) \o FlattenRange(seqs, mid + 1, hi)

Flatten(seqs) == FlattenRange(seqs, 1, Len(seqs))

\* a sequence as a list whose items are all computed
Listed(seq) == Flatten([k \in 1..Len(seq) |-> <<seq[k]>>])

\* The sum nums[lo] + ... + nums[hi], by halving
RECURSIVE SumRange(_, _, _)
SumRange(nums, lo, hi) ==
    IF lo > hi
    THEN 0
    ELSE IF lo = hi
         THEN nums[lo]
         ELSE LET mid == (lo + hi) \div 2
              IN  SumRange(nums, lo, mid) + SumRange(nums, mid + 1, hi)

\* <<base, base + nums[lo], ..., base + nums[lo] + ... + nums[hi - 1]>>
RECURSIVE PrefixSums(_, _, _, _)
PrefixSums(nums, lo, hi, base) ==
    IF lo > hi
    THEN <<>>
    ELSE IF lo = hi
         THEN <<base>>
         ELSE LET mid == (lo + hi) \div 2
              IN  PrefixSums(nums, lo, mid, base)
                      \o PrefixSums(nums, mid + 1, hi, base + SumRange(nums, lo, mid))

(***************************************************************************)
(* engine/board.py                                                         *)
(***************************************************************************)
\* Board._grid is a 15x15 list of lists whose cells hold a letter or None.
\* A grid is kept as the function from the 0-indexed cells <<r, c>> that
\* hold a letter to that letter: GridAt is grid[r][c] of the source, GridPut
\* is the assignment grid[r][c] = letter and GridClear is grid[r][c] = None.
EmptyGrid == << >>

GridAt(g, r, c) == IF <<r, c>> \in DOMAIN g THEN g[<<r, c>>] ELSE None

GridPut(g, r, c, letter) ==
    [p \in DOMAIN g \cup {<<r, c>>} |-> IF p = <<r, c>> THEN letter ELSE g[p]]

GridClear(g, r, c) == [p \in DOMAIN g \ {<<r, c>>} |-> g[p]]

is_valid_position(row, col) ==
    /\ 1 <= row /\ row <= BOARD_SIZE
    /\ 1 <= col /\ col <= BOARD_SIZE

\* Board.get_tile on a valid 1-indexed position
get_tile(g, row, col) == GridAt(g, row - 1, col - 1)

\* Board.set_tile on a valid 1-indexed position
set_tile(g, row, col, letter) == GridPut(g, row - 1, col - 1, letter)

\* The cell of the i-th letter (1-based i) of a word starting at (row, col)
WordCell(row, col, horizontal, i) ==
    IF horizontal THEN <<row, col + (i - 1)>> ELSE <<row + (i - 1), col>>

\* Board.place_word: the loop from letter i on.  A raise leaves the tiles
\* placed so far on the grid and returns nothing.
RECURSIVE place_word_from(_, _, _, _, _, _, _)
place_word_from(g, word, row, col, horizontal, i, new_tiles) ==
    IF i > Len(word)
    THEN [grid |-> g, ret |-> new_tiles, raised |-> FALSE]
    ELSE LET rc == WordCell(row, col, horizontal, i)
             r == rc[1]
             c == rc[2]
         IN  IF ~is_valid_position(r, c)
             THEN [grid |-> g, ret |-> <<>>, raised |-> TRUE]
             ELSE LET current == get_tile(g, r, c)
                  IN  IF current = None
                      THEN place_word_from(set_tile(g, r, c, word[i]), word, row, col,
                                           horizontal, i + 1, Append(new_tiles, <<r, c>>))
                      ELSE IF current # word[i]
                           THEN [grid |-> g, ret |-> <<>>, raised |-> TRUE]
                           ELSE place_word_from(g, word, row, col, horizontal, i + 1,
                                                new_tiles)

place_word(g, word, row, col, horizontal) ==
    place_word_from(g, word, row, col, horizontal, 1, <<>>)

\* A Python list of 15 items accepts the indices -15..14; a negative index
\* counts from the end, any other index raises IndexError.
PyIndexOk(i) == -BOARD_SIZE <= i /\ i <= BOARD_SIZE - 1

PyIndex(i) == IF i < 0 THEN i + BOARD_SIZE ELSE i

\* self._grid[ir][ic] is None, the test place_move makes before it writes
CellIsEmpty(g, ir, ic) == GridAt(g, PyIndex(ir), PyIndex(ic)) = None

\* Board.place_move: the loop from letter i on.  It indexes self._grid
\* directly, without is_valid_position.
RECURSIVE place_move_from(_, _, _, _, _, _, _)
place_move_from(g, word, row, col, horizontal, i, placed) ==
    IF i > Len(word)
    THEN [grid |-> g, ret |-> placed, raised |-> FALSE]
    ELSE LET rc == WordCell(row, col, horizontal, i)
             ir == rc[1] - 1
             ic == rc[2] - 1
         IN  IF ~(PyIndexOk(ir) /\ PyIndexOk(ic))
             THEN [grid |-> g, ret |-> <<>>, raised |-> TRUE]
             ELSE IF CellIsEmpty(g, ir, ic)
                  THEN place_move_from(
                           GridPut(g, PyIndex(ir), PyIndex(ic), word[i]),
                           word, row, col, horizontal, i + 1,
                           Append(placed, <<rc[1], rc[2], word[i]>>))
                  ELSE place_move_from(g, word, row, col, horizontal, i + 1, placed)

\* Mutant of place_move: the returned list names every cell of the word,
\* the ones that already held a tile included.
place_move_lists_all(g, word, row, col, horizontal) ==
    LET res == place_move_from(g, word, row, col, horizontal, 1, <<>>)
    IN  IF res.raised
        THEN res
        ELSE [res EXCEPT !.ret =
                 [i \in 1..Len(word) |->
                     <<WordCell(row, col, horizontal, i)[1],
                       WordCell(row, col, horizontal, i)[2], word[i]>>]]

place_move(g, word, row, col, horizontal) ==
    place_move_from(g, word, row, col, horizontal, 1, <<>>)

\* Board.undo_move, on a list place_move returned (its indices are in range)
RECURSIVE undo_move_from(_, _, _)
undo_move_from(g, placed_tiles, i) ==
    IF i > Len(placed_tiles)
    THEN g
    ELSE undo_move_from(
             GridClear(g, PyIndex(placed_tiles[i][1] - 1), PyIndex(placed_tiles[i][2] - 1)),
             placed_tiles, i + 1)

\* Mutant of undo_move: the first tile of the list stays on the board.
undo_move_but_first(g, placed_tiles) == undo_move_from(g, placed_tiles, 2)

undo_move(g, placed_tiles) == undo_move_from(g, placed_tiles, 1)


(***************************************************************************)
(* engine/config.py: the legal two-letter words                            *)
(***************************************************************************)
VALID_TWO_LETTER == {
    <<"A", "A">>, <<"A", "B">>, <<"A", "D">>, <<"A", "E">>, <<"A", "G">>, <<"A", "H">>,
    <<"A", "I">>, <<"A", "L">>, <<"A", "M">>, <<"A", "N">>, <<"A", "R">>, <<"A", "S">>,
    <<"A", "T">>, <<"A", "W">>, <<"A", "X">>, <<"A", "Y">>, <<"B", "A">>, <<"B", "E">>,
    <<"B", "I">>, <<"B", "O">>, <<"B", "Y">>, <<"D", "A">>, <<"D", "E">>, <<"D", "O">>,
    <<"E", "D">>, <<"E", "F">>, <<"E", "H">>, <<"E", "L">>, <<"E", "M">>, <<"E", "N">>,
    <<"E", "R">>, <<"E", "S">>, <<"E", "T">>, <<"E", "W">>, <<"E", "X">>, <<"F", "A">>,
    <<"F", "E">>, <<"G", "I">>, <<"G", "O">>, <<"H", "A">>, <<"H", "E">>, <<"H", "I">>,
    <<"H", "M">>, <<"H", "O">>, <<"I", "D">>, <<"I", "F">>, <<"I", "N">>, <<"I", "S">>,
    <<"I", "T">>, <<"J", "O">>, <<"K", "A">>, <<"K", "I">>, <<"L", "A">>, <<"L", "I">>,
    <<"L", "O">>, <<"M", "A">>, <<"M", "E">>, <<"M", "I">>, <<"M", "M">>, <<"M", "O">>,
    <<"M", "U">>, <<"M", "Y">>, <<"N", "A">>, <<"N", "E">>, <<"N", "O">>, <<"N", "U">>,
    <<"O", "D">>, <<"O", "E">>, <<"O", "F">>, <<"O", "H">>, <<"O", "I">>, <<"O", "K">>,
    <<"O", "M">>, <<"O", "N">>, <<"O", "P">>, <<"O", "R">>, <<"O", "S">>, <<"O", "W">>,
    <<"O", "X">>, <<"O", "Y">>, <<"P", "A">>, <<"P", "E">>, <<"P", "I">>, <<"P", "O">>,
    <<"Q", "I">>, <<"R", "E">>, <<"S", "H">>, <<"S", "I">>, <<"S", "O">>, <<"T", "A">>,
    <<"T", "E">>, <<"T", "I">>, <<"T", "O">>, <<"U", "H">>, <<"U", "M">>, <<"U", "N">>,
    <<"U", "P">>, <<"U", "S">>, <<"U", "T">>, <<"W", "E">>, <<"W", "O">>, <<"X", "I">>,
    <<"X", "U">>, <<"Y", "A">>, <<"Y", "E">>, <<"Y", "O">>, <<"Z", "A">>}

(***************************************************************************)
(* engine/gaddag.py: the GADDAG as a trie.  A node is named by the path    *)
(* from the root to it, so the trie is the set of its nodes' paths         *)
(* (node.children[ch] exists iff the path extended by ch is a node) and    *)
(* the set of paths whose node has is_terminal set.                        *)
(***************************************************************************)
DELIMITER == "+"

\* _CHAR_TO_IDX / _C2I: A-Z = 0..25, '+' = 26
ALPHA27 == ALPHABET \o <<DELIMITER>>

C2I == [ch \in LetterSet \cup {DELIMITER} |-> CHOOSE i \in 0..26 : ALPHA27[i + 1] = ch]

\* GADDAG.__init__: a root without children
EmptyGaddag == [nodes |-> {<<>>}, terminal |-> {}, word_count |-> 0]

Prefixes(path) == {SubSeq(path, 1, n) : n \in 0..Len(path)}

\* GADDAG._add_path
add_path(t, path) ==
    [t EXCEPT !.nodes = @ \cup Prefixes(path), !.terminal = @ \cup {path}]

\* The path add_word inserts for split index i (0-based):
\* word[:i+1] reversed, the delimiter, word[i+1:]
RotationPath(word, i) ==
    Reverse(SubSeq(word, 1, i + 1)) \o <<DELIMITER>> \o SubSeq(word, i + 2, Len(word))

RECURSIVE add_word_from(_, _, _)
add_word_from(t, word, i) ==
    IF i >= Len(word)
    THEN t
    ELSE add_word_from(add_path(t, RotationPath(word, i)), word, i + 1)

\* Mutant of add_word: the loop over the split indices stops one short, so
\* the path of the whole word reversed is never inserted.
add_word_one_short(t, word) ==
    IF Len(word) < 2
    THEN t
    ELSE add_word_from([t EXCEPT !.word_count = @ + 1], SubSeq(word, 1, Len(word) - 1), 0)

\* GADDAG.add_word
add_word(t, word) ==
    IF Len(word) < 2
    THEN t
    ELSE add_word_from([t EXCEPT !.word_count = @ + 1], word, 0)

\* The loop "for word in words: if len(word) >= 2: self.add_word(word)".
\* add_path only ever adds nodes and terminal marks, so the trie after the
\* loop is the union of what each add_word adds, in whatever order the set
\* is iterated.
add_words(t, words) ==
    LET long == {w \in words : Len(w) >= 2}
    IN  [nodes |-> t.nodes \cup UNION {add_word(EmptyGaddag, w).nodes : w \in long},
         terminal |-> t.terminal \cup UNION {add_word(EmptyGaddag, w).terminal : w \in long},
         word_count |-> t.word_count + Cardinality(long)]

\* GADDAG.build_from_words: the dictionary's words, then VALID_TWO_LETTER
build_from_words(words) ==
    add_words(add_words(EmptyGaddag, words), VALID_TWO_LETTER)

\* GADDAG.get_node: the node at the end of the path (found), or None
RECURSIVE get_node_from(_, _, _, _)
get_node_from(t, path, i, node) ==
    IF i > Len(path)
    THEN [found |-> TRUE, node |-> node]
    ELSE IF Append(node, path[i]) \notin t.nodes
         THEN [found |-> FALSE, node |-> <<>>]
         ELSE get_node_from(t, path, i + 1, Append(node, path[i]))

get_node(t, path) == get_node_from(t, path, 1, <<>>)

\* GADDAG.has_path
has_path(t, path) == get_node(t, path).found

\* GADDAG.is_complete_word
is_complete_word(t, path) ==
    LET n == get_node(t, path)
    IN  n.found /\ n.node \in t.terminal

\* GADDAG.is_word
is_word(t, word) ==
    IF Len(word) = 2
    THEN word \in VALID_TWO_LETTER
    ELSE is_complete_word(t, Reverse(word) \o <<DELIMITER>>)

(***************************************************************************)
(* engine/gaddag_compact.py: the GADDAG packed into a byte array.          *)
(* data[k] of the source is Byte(data, k) here: the bytes are kept in a    *)
(* sequence, whose indices start at 1.                                     *)
(***************************************************************************)
Byte(data, k) == data[k + 1]

\* struct.pack('<I', v): four bytes, least significant first
PackU32(v) == <<v % 256, (v \div 256) % 256, (v \div 65536) % 256, (v \div 16777216) % 256>>

\* struct.unpack_from('<I', data, k) / int.from_bytes(data[k:k+4], 'little')
UnpackU32(data, k) ==
    Byte(data, k) + 256 * Byte(data, k + 1) + 65536 * Byte(data, k + 2)
        + 16777216 * Byte(data, k + 3)

\* the labels of the node's children sorted as characters: '+' comes before
\* the letters
SortedChildren_as_chars(t, node) ==
    SelectSeq(<<DELIMITER>> \o SubSeq(ALPHA27, 1, 26), LAMBDA ch : Append(node, ch) \in t.nodes)

\* sorted(node.children.keys(), key=_CHAR_TO_IDX): the labels of the node's
\* children in ascending char-index order
SortedChildren(t, node) ==
    SelectSeq(ALPHA27, LAMBDA ch : Append(node, ch) \in t.nodes)

\* The children of a node, as nodes, in ascending char-index order
ChildNodes(t, node) ==
    LET kids == SortedChildren(t, node)
    IN  [i \in 1..Len(kids) |-> Append(node, kids[i])]

\* build_from_gaddag, first loop: the order in which the FIFO queue yields
\* the nodes.  The queue holds the nodes of one depth, then their children
\* in the same order, so it is emptied one whole depth at a time.
RECURSIVE BfsOrder(_, _, _)
BfsOrder(t, level, order) ==
    IF level = <<>>
    THEN order
    ELSE BfsOrder(t, Flatten([i \in 1..Len(level) |-> ChildNodes(t, level[i])]),
                  order \o level)

\* build_from_gaddag, first loop: node_offsets, as the sequence of the
\* offsets of order[1], order[2], ... (node_size = 1 + 5 * children)
NodeOffsets(t, order) ==
    PrefixSums([i \in 1..Len(order) |-> 1 + Len(SortedChildren(t, order[i])) * 5],
               1, Len(order), 0)

\* node_offsets[id(node)]
OffsetOf(order, offsets, node) ==
    offsets[CHOOSE i \in 1..Len(order) : order[i] = node]

\* build_from_gaddag, second loop: the bytes of one node
NodeBytes(t, order, offsets, node) ==
    LET kids == SortedChildren(t, node)
        num_children == Len(kids)
        flags == (num_children % 32) + (IF node \in t.terminal THEN 128 ELSE 0)
    IN  <<flags>> \o
        Flatten([i \in 1..num_children |->
                    <<C2I[kids[i]]>>
                        \o PackU32(OffsetOf(order, offsets, Append(node, kids[i])))])

\* CompactGADDAG.build_from_gaddag: the packed _data
build_from_gaddag(t) ==
    LET order == BfsOrder(t, <<<<>>>>, <<>>)
        offsets == NodeOffsets(t, order)
    IN  Flatten([i \in 1..Len(order) |-> NodeBytes(t, order, offsets, order[i])])

\* an _is_terminal that reads the lowest bit of the flag byte
compact_is_terminal_low_bit(data, offset) == Byte(data, offset) % 2 = 1

\* CompactGADDAG._is_terminal
compact_is_terminal(data, offset) == (Byte(data, offset) \div 128) % 2 = 1

\* CompactGADDAG._child_count
child_count(data, offset) == Byte(data, offset) % 32

\* CompactGADDAG._get_child (and move_finder's inlined get_child): the scan
\* of the entries stops at the first whose char index is char_idx or more;
\* -1 when that is not char_idx, or there is none
get_child(data, offset, char_idx) ==
    LET count == child_count(data, offset)
        \* the entries at which the loop stops: ci == char_idx or ci > char_idx
        stops == {i \in 0..(count - 1) : Byte(data, offset + 1 + i * 5) >= char_idx}
        first == CHOOSE i \in stops : \A j \in stops : i <= j
    IN  IF stops = {}
        THEN -1
        ELSE IF Byte(data, offset + 1 + first * 5) = char_idx
             THEN UnpackU32(data, offset + 2 + first * 5)
             ELSE -1

\* CompactGADDAG._iter_children: the (letter, child offset) pairs in stored order
iter_children(data, offset) ==
    [i \in 1..child_count(data, offset) |->
        <<ALPHA27[Byte(data, offset + 1 + (i - 1) * 5) + 1],
          UnpackU32(data, offset + 2 + (i - 1) * 5)>>]

\* CompactGADDAG.get_node through CompactChildren.__contains__ and
\* __getitem__: the offset of the node at the end of the path, or -1
RECURSIVE compact_get_node_from(_, _, _, _)
compact_get_node_from(data, path, i, offset) ==
    IF i > Len(path)
    THEN offset
    ELSE IF path[i] \notin DOMAIN C2I
         THEN -1
         ELSE LET child == get_child(data, offset, C2I[path[i]])
              IN  IF child < 0
                  THEN -1
                  ELSE compact_get_node_from(data, path, i + 1, child)

compact_get_node(data, path) == compact_get_node_from(data, path, 1, 0)

\* CompactGADDAG.has_path
compact_has_path(data, path) == compact_get_node(data, path) >= 0

\* CompactGADDAG.is_complete_word
compact_is_complete_word(data, path) ==
    LET node == compact_get_node(data, path)
    IN  node >= 0 /\ compact_is_terminal(data, node)

\* CompactGADDAG.is_word
compact_is_word(data, word) ==
    IF Len(word) = 2
    THEN word \in VALID_TWO_LETTER
    ELSE compact_is_complete_word(data, Reverse(word) \o <<DELIMITER>>)

(***************************************************************************)
(* engine/config.py: tile values and premium squares (1-indexed)           *)
(***************************************************************************)
TILE_VALUES ==
    "A" :> 1 @@ "B" :> 4 @@ "C" :> 3 @@ "D" :> 2 @@ "E" :> 1 @@ "F" :> 4 @@
    "G" :> 4 @@ "H" :> 3 @@ "I" :> 1 @@ "J" :> 10 @@ "K" :> 6 @@ "L" :> 2 @@
    "M" :> 3 @@ "N" :> 1 @@ "O" :> 1 @@ "P" :> 3 @@ "Q" :> 10 @@ "R" :> 1 @@
    "S" :> 1 @@ "T" :> 1 @@ "U" :> 2 @@ "V" :> 6 @@ "W" :> 5 @@ "X" :> 8 @@
    "Y" :> 4 @@ "Z" :> 10 @@ "?" :> 0

TRIPLE_LETTER == {
    <<1, 1>>, <<1, 15>>, <<15, 1>>, <<15, 15>>, <<2, 7>>, <<2, 9>>, <<14, 7>>,
    <<14, 9>>, <<7, 2>>, <<9, 2>>, <<7, 14>>, <<9, 14>>, <<5, 6>>, <<5, 10>>,
    <<11, 6>>, <<11, 10>>, <<6, 5>>, <<6, 11>>, <<10, 5>>, <<10, 11>>}

DOUBLE_LETTER == {
    <<1, 8>>, <<15, 8>>, <<8, 1>>, <<8, 15>>, <<3, 5>>, <<3, 11>>, <<13, 5>>,
    <<13, 11>>, <<5, 3>>, <<5, 13>>, <<11, 3>>, <<11, 13>>, <<4, 4>>, <<4, 12>>,
    <<12, 4>>, <<12, 12>>, <<6, 8>>, <<10, 8>>, <<8, 6>>, <<8, 10>>}

TRIPLE_WORD == {
    <<1, 4>>, <<1, 12>>, <<15, 4>>, <<15, 12>>, <<4, 1>>, <<4, 15>>, <<12, 1>>,
    <<12, 15>>}

DOUBLE_WORD == {
    <<2, 2>>, <<2, 14>>, <<14, 2>>, <<14, 14>>, <<4, 8>>, <<12, 8>>, <<8, 4>>,
    <<8, 12>>}

\* BONUS_SQUARES.get((row, col)), Board.get_bonus
get_bonus(row, col) ==
    IF <<row, col>> \in TRIPLE_LETTER THEN "3L"
    ELSE IF <<row, col>> \in DOUBLE_LETTER THEN "2L"
    ELSE IF <<row, col>> \in TRIPLE_WORD THEN "3W"
    ELSE IF <<row, col>> \in DOUBLE_WORD THEN "2W"
    ELSE None

(***************************************************************************)
(* engine/scoring.py                                                       *)
(***************************************************************************)
\* get_tile_value: TILE_VALUES.get(letter, 0)
get_tile_value(letter) ==
    IF letter \in DOMAIN TILE_VALUES THEN TILE_VALUES[letter] ELSE 0

\* Board.is_occupied on a valid position
is_occupied(g, row, col) == get_tile(g, row, col) # None

\* calculate_word_score: the loop from letter i (1-based) on, with the
\* running word_score and word_multiplier.  blanks_set holds 0-based indices.
RECURSIVE word_score_from(_, _, _, _, _, _, _, _, _)
word_score_from(word, start_row, start_col, horizontal, new_positions_set, blanks_set, i, word_score, word_multiplier) ==
    IF i > Len(word)
    THEN word_score * word_multiplier
    ELSE LET rc == WordCell(start_row, start_col, horizontal, i)
             bonus == IF rc \in new_positions_set THEN get_bonus(rc[1], rc[2]) ELSE None
             base == IF (i - 1) \in blanks_set THEN 0 ELSE get_tile_value(word[i])
             letter_value == IF bonus = "3L" THEN base * 3
                             ELSE IF bonus = "2L" THEN base * 2
                             ELSE base
             mult == IF bonus = "3W" THEN word_multiplier * 3
                     ELSE IF bonus = "2W" THEN word_multiplier * 2
                     ELSE word_multiplier
         IN  word_score_from(word, start_row, start_col, horizontal, new_positions_set,
                             blanks_set, i + 1, word_score + letter_value, mult)

\* Mutant of calculate_word_score: the premium of every cell of the word is
\* applied, whether or not the cell is in new_tile_positions.
RECURSIVE word_score_every_cell(_, _, _, _, _, _, _, _, _)
word_score_every_cell(word, start_row, start_col, horizontal, new_positions_set, blanks_set, i, word_score, word_multiplier) ==
    IF i > Len(word)
    THEN word_score * word_multiplier
    ELSE LET rc == WordCell(start_row, start_col, horizontal, i)
             bonus == get_bonus(rc[1], rc[2])
             base == IF (i - 1) \in blanks_set THEN 0 ELSE get_tile_value(word[i])
             letter_value == IF bonus = "3L" THEN base * 3
                             ELSE IF bonus = "2L" THEN base * 2
                             ELSE base
             mult == IF bonus = "3W" THEN word_multiplier * 3
                     ELSE IF bonus = "2W" THEN word_multiplier * 2
                     ELSE word_multiplier
         IN  word_score_every_cell(word, start_row, start_col, horizontal,
                                   new_positions_set, blanks_set, i + 1,
                                   word_score + letter_value, mult)

calculate_word_score_every_cell(word, start_row, start_col, horizontal, new_tile_positions, blanks_used) ==
    word_score_every_cell(word, start_row, start_col, horizontal,
                          Range(new_tile_positions), Range(blanks_used), 1, 0, 1)

\* calculate_word_score, called with new_tile_positions and blanks_used given
calculate_word_score(word, start_row, start_col, horizontal, new_tile_positions, blanks_used) ==
    word_score_from(word, start_row, start_col, horizontal, Range(new_tile_positions),
                    Range(blanks_used), 1, 0, 1)

\* find_crosswords: the "look backward" loop.  From (row, col) it steps back
\* over occupied cells and returns the letters passed, first cell first.
RECURSIVE LookBackward(_, _, _, _, _)
LookBackward(g, row, col, cross_horizontal, acc) ==
    LET r == IF cross_horizontal THEN row ELSE row - 1
        c == IF cross_horizontal THEN col - 1 ELSE col
    IN  IF (IF cross_horizontal THEN c >= 1 ELSE r >= 1) /\ is_occupied(g, r, c)
        THEN LookBackward(g, r, c, cross_horizontal, <<get_tile(g, r, c)>> \o acc)
        ELSE acc

\* find_crosswords: the "look forward" loop
RECURSIVE LookForward(_, _, _, _, _)
LookForward(g, row, col, cross_horizontal, acc) ==
    LET r == IF cross_horizontal THEN row ELSE row + 1
        c == IF cross_horizontal THEN col + 1 ELSE col
    IN  IF (IF cross_horizontal THEN c <= 15 ELSE r <= 15) /\ is_occupied(g, r, c)
        THEN LookForward(g, r, c, cross_horizontal, Append(acc, get_tile(g, r, c)))
        ELSE acc

\* find_crosswords: the crossword through the new tile at index i (1-based),
\* as a list of zero or one crossword
CrosswordAt(g, word, start_row, start_col, horizontal, new_tile_positions, i) ==
    LET rc == WordCell(start_row, start_col, horizontal, i)
        cross_horizontal == ~horizontal
        back == LookBackward(g, rc[1], rc[2], cross_horizontal, <<>>)
        fwd == LookForward(g, rc[1], rc[2], cross_horizontal, <<>>)
        cross_word == back \o <<word[i]>> \o fwd
    IN  IF rc \notin Range(new_tile_positions) \/ Len(cross_word) < 2
        THEN <<>>
        ELSE <<[word |-> cross_word,
                row |-> IF cross_horizontal THEN rc[1] ELSE rc[1] - Len(back),
                col |-> IF cross_horizontal THEN rc[2] - Len(back) ELSE rc[2],
                horizontal |-> cross_horizontal]>>

find_crosswords(g, word, start_row, start_col, horizontal, new_tile_positions) ==
    Flatten([i \in 1..Len(word) |->
                CrosswordAt(g, word, start_row, start_col, horizontal,
                            new_tile_positions, i)])

\* Whether 1-indexed (r, c) is a cell of the crossword cw
InCrossword(cw, r, c) ==
    IF cw.horizontal
    THEN r = cw.row /\ cw.col <= c /\ c < cw.col + Len(cw.word)
    ELSE c = cw.col /\ cw.row <= r /\ r < cw.row + Len(cw.word)

\* calculate_move_score: the body of the loop over the crosswords
ScoredCrossword(cw, start_row, start_col, horizontal, blanks_used, board_blank_positions, new_tile_positions) ==
    LET blank_cell(k) == WordCell(start_row, start_col, horizontal, blanks_used[k] + 1)
        own_blanks ==
            Flatten([k \in 1..Len(blanks_used) |->
                        IF InCrossword(cw, blank_cell(k)[1], blank_cell(k)[2])
                        THEN <<IF cw.horizontal THEN blank_cell(k)[2] - cw.col
                                                ELSE blank_cell(k)[1] - cw.row>>
                        ELSE <<>>])
        board_blanks_in ==
            SelectSeq([i \in 1..Len(cw.word) |-> i - 1],
                      LAMBDA i : WordCell(cw.row, cw.col, cw.horizontal, i + 1)
                                     \in board_blank_positions)
        cw_blanks == own_blanks \o board_blanks_in
        cw_new_positions ==
            SelectSeq(new_tile_positions, LAMBDA p : InCrossword(cw, p[1], p[2]))
    IN  [word |-> cw.word, row |-> cw.row, col |-> cw.col, horizontal |-> cw.horizontal,
         score |-> calculate_word_score(cw.word, cw.row, cw.col, cw.horizontal,
                                        cw_new_positions, cw_blanks)]

\* sum of the 'score' fields of a list of crosswords
CrosswordTotal(crosswords) ==
    SumRange([k \in 1..Len(crosswords) |-> crosswords[k].score], 1, Len(crosswords))

\* calculate_move_score's bingo bonus, from the number of new tiles
calc_bingo(tiles_from_rack) == IF tiles_from_rack >= RACK_SIZE THEN BINGO_BONUS ELSE 0

\* calculate_move_score on the board g before the move.  blanks_used is a
\* list of 0-based indices, board_blanks a list of <<row, col, letter>>.
\* The result also shows the local main_score.
calculate_move_score(g, word, start_row, start_col, horizontal, blanks_used, board_blanks) ==
    LET blanks_set == Range(blanks_used)
        board_blank_positions == {<<b[1], b[2]>> : b \in Range(board_blanks)}
        cells == [i \in 1..Len(word) |-> WordCell(start_row, start_col, horizontal, i)]
        new_tile_positions ==
            SelectSeq(cells, LAMBDA p : get_tile(g, p[1], p[2]) = None)
        all_blanks ==
            blanks_used \o
            SelectSeq([i \in 1..Len(word) |-> i - 1],
                      LAMBDA i : cells[i + 1] \in board_blank_positions
                                     /\ i \notin blanks_set)
        main_score == calculate_word_score(word, start_row, start_col, horizontal,
                                           new_tile_positions, all_blanks)
        crosswords == find_crosswords(g, word, start_row, start_col, horizontal,
                                      new_tile_positions)
        crosswords_with_scores ==
            [k \in 1..Len(crosswords) |->
                ScoredCrossword(crosswords[k], start_row, start_col, horizontal,
                                blanks_used, board_blank_positions, new_tile_positions)]
    IN  [total |-> main_score + CrosswordTotal(crosswords_with_scores)
                       + calc_bingo(Len(new_tile_positions)),
         crosswords |-> crosswords_with_scores,
         main_score |-> main_score]

(***************************************************************************)
(* engine/move_finder.py: lookup tables and the inline scorer score_move   *)
(* of find_all_moves_opt.  All coordinates here are 0-indexed.             *)
(***************************************************************************)
\* _TV[ord(ch) - 65] for ch in 'A'..'Z'
TV(ch) == TILE_VALUES[ch]

\* _BONUS[r0][c0] = (letter_mult, word_mult)
BONUS(r0, c0) ==
    LET btype == get_bonus(r0 + 1, c0 + 1)
    IN  IF btype = "2L" THEN <<2, 1>>
        ELSE IF btype = "3L" THEN <<3, 1>>
        ELSE IF btype = "2W" THEN <<1, 2>>
        ELSE IF btype = "3W" THEN <<1, 3>>
        ELSE <<1, 1>>

\* the cell of letter i (0-based) of a word starting at (start_r0, start_c0)
Cell0(start_r0, start_c0, horiz, i) ==
    IF horiz THEN <<start_r0, start_c0 + i>> ELSE <<start_r0 + i, start_c0>>

\* score_move: the first loop from letter i (0-based) on, with the running
\* main_score and word_mult
RECURSIVE main_score_from(_, _, _, _, _, _, _, _, _, _)
main_score_from(g, word_chars, wlen, start_r0, start_c0, horiz, blanks_set, board_blank_set, i, acc) ==
    IF i >= wlen
    THEN acc[1] * acc[2]
    ELSE LET rc == Cell0(start_r0, start_c0, horiz, i)
             is_new == GridAt(g, rc[1], rc[2]) = None
             lv == IF i \in blanks_set THEN 0
                   ELSE IF ~is_new /\ rc \in board_blank_set THEN 0
                   ELSE TV(word_chars[i + 1])
             lm == BONUS(rc[1], rc[2])[1]
             wm == BONUS(rc[1], rc[2])[2]
         IN  main_score_from(g, word_chars, wlen, start_r0, start_c0, horiz, blanks_set,
                             board_blank_set, i + 1,
                             IF is_new THEN <<acc[1] + lv * lm, acc[2] * wm>>
                                       ELSE <<acc[1] + lv, acc[2]>>)

\* score_move: new_positions, the list of (r0, c0, word_index)
new_positions_of(g, wlen, start_r0, start_c0, horiz) ==
    SelectSeq([k \in 1..wlen |->
                  <<Cell0(start_r0, start_c0, horiz, k - 1)[1],
                    Cell0(start_r0, start_c0, horiz, k - 1)[2], k - 1>>],
              LAMBDA p : GridAt(g, p[1], p[2]) = None)

\* score_move: the look left / right / up / down loops.  Steps by (dr, dc)
\* from (r0, c0) over occupied cells inside the grid; the cells in walk order.
RECURSIVE cw_walk(_, _, _, _, _)
cw_walk(g, r0, c0, dr, dc) ==
    LET rr == r0 + dr
        cc == c0 + dc
    IN  IF rr >= 0 /\ rr < 15 /\ cc >= 0 /\ cc < 15 /\ GridAt(g, rr, cc) # None
        THEN <<(<<rr, cc>>)>> \o cw_walk(g, rr, cc, dr, dc)
        ELSE <<>>

\* a has_perp that looks at one side of the new position only
has_perp_one_side(g, r0, c0, horiz) ==
    IF horiz
    THEN r0 > 0 /\ GridAt(g, r0 - 1, c0) # None
    ELSE c0 > 0 /\ GridAt(g, r0, c0 - 1) # None

\* score_move: has_perp of a new position
has_perp(g, r0, c0, horiz) ==
    IF horiz
    THEN (r0 > 0 /\ GridAt(g, r0 - 1, c0) # None)
             \/ (r0 < 14 /\ GridAt(g, r0 + 1, c0) # None)
    ELSE (c0 > 0 /\ GridAt(g, r0, c0 - 1) # None)
             \/ (c0 < 14 /\ GridAt(g, r0, c0 + 1) # None)

\* Mutant of the crossword scoring of score_move: a board tile of the
\* crossword counts its face value even when it is a blank.
cw_at_blank_counts(g, word_chars, horiz, blanks_set, board_blank_set, pos) ==
    LET r0 == pos[1]
        c0 == pos[2]
        placed_letter == word_chars[pos[3] + 1]
        cw_horiz == ~horiz
        pre_cells == Reverse(IF cw_horiz THEN cw_walk(g, r0, c0, 0, -1)
                                         ELSE cw_walk(g, r0, c0, -1, 0))
        post_cells == IF cw_horiz THEN cw_walk(g, r0, c0, 0, 1)
                                  ELSE cw_walk(g, r0, c0, 1, 0)
        letters(cells) == [k \in 1..Len(cells) |-> GridAt(g, cells[k][1], cells[k][2])]
        values(cells) == [k \in 1..Len(cells) |-> TV(GridAt(g, cells[k][1], cells[k][2]))]
        plv == (IF pos[3] \in blanks_set THEN 0 ELSE TV(placed_letter)) * BONUS(r0, c0)[1]
    IN  [word |-> letters(pre_cells) \o <<placed_letter>> \o letters(post_cells),
         row |-> (IF pre_cells = <<>> THEN r0 ELSE pre_cells[1][1]) + 1,
         col |-> (IF pre_cells = <<>> THEN c0 ELSE pre_cells[1][2]) + 1,
         horizontal |-> cw_horiz,
         score |-> (SumRange(values(pre_cells), 1, Len(pre_cells)) + plv
                       + SumRange(values(post_cells), 1, Len(post_cells)))
                       * BONUS(r0, c0)[2]]

\* score_move: the crossword built and scored at one new position
cw_at(g, word_chars, horiz, blanks_set, board_blank_set, pos) ==
    LET r0 == pos[1]
        c0 == pos[2]
        wi == pos[3]
        placed_letter == word_chars[wi + 1]
        is_blank == wi \in blanks_set
        cw_horiz == ~horiz
        pre_cells == Reverse(IF cw_horiz THEN cw_walk(g, r0, c0, 0, -1)
                                         ELSE cw_walk(g, r0, c0, -1, 0))
        post_cells == IF cw_horiz THEN cw_walk(g, r0, c0, 0, 1)
                                  ELSE cw_walk(g, r0, c0, 1, 0)
        clv(cell) == IF cell \in board_blank_set THEN 0
                     ELSE TV(GridAt(g, cell[1], cell[2]))
        letters(cells) == [k \in 1..Len(cells) |-> GridAt(g, cells[k][1], cells[k][2])]
        values(cells) == [k \in 1..Len(cells) |-> clv(cells[k])]
        plv == (IF is_blank THEN 0 ELSE TV(placed_letter)) * BONUS(r0, c0)[1]
        cw_wmult == BONUS(r0, c0)[2]
        cw_score == (SumRange(values(pre_cells), 1, Len(pre_cells)) + plv
                        + SumRange(values(post_cells), 1, Len(post_cells))) * cw_wmult
    IN  [word |-> letters(pre_cells) \o <<placed_letter>> \o letters(post_cells),
         row |-> (IF pre_cells = <<>> THEN r0 ELSE pre_cells[1][1]) + 1,
         col |-> (IF pre_cells = <<>> THEN c0 ELSE pre_cells[1][2]) + 1,
         horizontal |-> cw_horiz,
         score |-> cw_score]

\* Mutant of score_move's bingo bonus: given from one tile short of a rack.
move_bingo_one_short(new_count) ==
    IF new_count >= RACK_SIZE - 1 THEN BINGO_BONUS ELSE 0

\* score_move's bingo bonus, from len(new_positions)
move_bingo(new_count) == IF new_count >= RACK_SIZE THEN BINGO_BONUS ELSE 0

\* score_move on the grid g before the move.  The result also shows the
\* local main_score.
score_move(g, word_chars, wlen, start_r0, start_c0, horiz, blanks_set, board_blank_set) ==
    LET main_score == main_score_from(g, word_chars, wlen, start_r0, start_c0, horiz,
                                      blanks_set, board_blank_set, 0, <<0, 1>>)
        new_positions == new_positions_of(g, wlen, start_r0, start_c0, horiz)
        with_perp == SelectSeq(new_positions,
                               LAMBDA p : has_perp(g, p[1], p[2], horiz))
        crosswords == [k \in 1..Len(with_perp) |->
                          cw_at(g, word_chars, horiz, blanks_set, board_blank_set,
                                with_perp[k])]
    IN  [total |-> main_score + CrosswordTotal(crosswords)
                       + move_bingo(Len(new_positions)),
         crosswords |-> crosswords,
         main_score |-> main_score]

(***************************************************************************)
(* engine/move_finder.py: find_all_moves_opt.  The closures take what they *)
(* capture as ctx = [grid, gdata, words, board_blank_set]: the board's     *)
(* grid, the packed GADDAG, the dictionary's word set, and the 0-indexed   *)
(* cells of the blanks on the board.  A rack Counter is [order, count]:    *)
(* its keys in insertion order and their counts.                           *)
(***************************************************************************)
DELIM == 26

\* Dictionary.is_valid
dictionary_is_valid(words, word) ==
    IF Len(word) = 2 THEN word \in VALID_TWO_LETTER ELSE word \in words

\* is_valid_word
is_valid_word(words, word) ==
    IF Len(word) = 2 THEN word \in VALID_TWO_LETTER ELSE dictionary_is_valid(words, word)

\* is_terminal: gdata[offset] > 127
is_terminal(gdata, offset) == Byte(gdata, offset) > 127

\* cross_check: the loops that collect the tiles above / below (left /
\* right) of a cell.  Steps by (dr, dc) over occupied cells inside the grid;
\* the letters in walk order.
RECURSIVE perp_tiles(_, _, _, _, _)
perp_tiles(g, r0, c0, dr, dc) ==
    LET r == r0 + dr
        c == c0 + dc
    IN  IF r >= 0 /\ r < 15 /\ c >= 0 /\ c < 15 /\ GridAt(g, r, c) # None
        THEN <<GridAt(g, r, c)>> \o perp_tiles(g, r, c, dr, dc)
        ELSE <<>>

\* a cross_check that lets every letter into every cell
cross_check_unconstrained(ctx, r0, c0, horiz) == [constrained |-> FALSE, valid |-> {}]

\* cross_check: [constrained |-> FALSE] stands for None (any letter fits)
cross_check(ctx, r0, c0, horiz) ==
    LET above == Reverse(IF horiz THEN perp_tiles(ctx.grid, r0, c0, -1, 0)
                                  ELSE perp_tiles(ctx.grid, r0, c0, 0, -1))
        below == IF horiz THEN perp_tiles(ctx.grid, r0, c0, 1, 0)
                          ELSE perp_tiles(ctx.grid, r0, c0, 0, 1)
    IN  IF above = <<>> /\ below = <<>>
        THEN [constrained |-> FALSE, valid |-> {}]
        ELSE [constrained |-> TRUE,
              valid |-> {letter \in LetterSet :
                            is_valid_word(ctx.words, above \o <<letter>> \o below)}]

\* "cc is not None and letter not in cc" is false
cc_allows(cc, letter) == ~cc.constrained \/ letter \in cc.valid

\* the arguments of one record_move call
RecordCall(wchars, sr0, sc0, horiz, blanks_used) ==
    [word_chars |-> wchars, wlen |-> Len(wchars), start_r0 |-> sr0, start_c0 |-> sc0,
     horiz |-> horiz, blanks_used |-> blanks_used]

\* extend_right: the record_move calls it makes, in order
RECURSIVE extend_right(_, _, _, _, _, _, _, _, _, _, _)
extend_right(ctx, row0, col0, horiz, offset, wchars, rack, sr0, sc0, blanks_rem, blanks_used) ==
    LET wlen == Len(wchars)
        here == IF is_terminal(ctx.gdata, offset) /\ wlen >= 2
                THEN <<RecordCall(wchars, sr0, sc0, horiz, blanks_used)>>
                ELSE <<>>
        nr == IF horiz THEN row0 ELSE row0 + 1
        nc == IF horiz THEN col0 + 1 ELSE col0
    IN  IF row0 < 0 \/ row0 >= 15 \/ col0 < 0 \/ col0 >= 15
        THEN here
        ELSE IF GridAt(ctx.grid, row0, col0) # None
        THEN LET existing == GridAt(ctx.grid, row0, col0)
                 child == get_child(ctx.gdata, offset, C2I[existing])
             IN  IF child >= 0
                 THEN extend_right(ctx, nr, nc, horiz, child, Append(wchars, existing),
                                   rack, sr0, sc0, blanks_rem, blanks_used)
                 ELSE <<>>
        ELSE LET cc == cross_check(ctx, row0, col0, horiz)
                 from_rack(letter) ==
                     LET child == get_child(ctx.gdata, offset, C2I[letter])
                     IN  IF rack.count[letter] <= 0 \/ ~cc_allows(cc, letter) \/ child < 0
                         THEN <<>>
                         ELSE extend_right(ctx, nr, nc, horiz, child,
                                           Append(wchars, letter),
                                           [rack EXCEPT !.count[letter] = @ - 1],
                                           sr0, sc0, blanks_rem, blanks_used)
                 kids == iter_children(ctx.gdata, offset)
                 from_blank(kid) ==
                     IF kid[1] = DELIMITER \/ ~cc_allows(cc, kid[1])
                     THEN <<>>
                     ELSE extend_right(ctx, nr, nc, horiz, kid[2], Append(wchars, kid[1]),
                                       rack, sr0, sc0, blanks_rem - 1,
                                       Append(blanks_used, wlen))
             IN  here
                 \o Flatten([k \in 1..Len(rack.order) |-> from_rack(rack.order[k])])
                 \o (IF blanks_rem > 0
                     THEN Flatten([k \in 1..Len(kids) |-> from_blank(kids[k])])
                     ELSE <<>>)

\* gen_left_part: the record_move calls it makes, in order
RECURSIVE gen_left_part(_, _, _, _, _, _, _, _, _, _)
gen_left_part(ctx, anchor_r0, anchor_c0, horiz, offset, wchars, rack, limit, blanks_rem, blanks_used) ==
    LET wlen == Len(wchars)
        kids == iter_children(ctx.gdata, offset)
        \* Try crossing delimiter
        delim_child == get_child(ctx.gdata, offset, DELIM)
        sr0 == IF horiz THEN anchor_r0 ELSE anchor_r0 - wlen
        sc0 == IF horiz THEN anchor_c0 - wlen ELSE anchor_c0
        fixed_blanks == [k \in 1..Len(blanks_used) |->
                            IF blanks_used[k] < 0 THEN wlen + blanks_used[k]
                                                  ELSE blanks_used[k]]
        crossing == IF delim_child >= 0
                    THEN extend_right(ctx, anchor_r0, anchor_c0, horiz, delim_child, wchars,
                                      rack, sr0, sc0, blanks_rem, fixed_blanks)
                    ELSE <<>>
        \* Try extending left
        pr0 == IF horiz THEN anchor_r0 ELSE anchor_r0 - wlen - 1
        pc0 == IF horiz THEN anchor_c0 - wlen - 1 ELSE anchor_c0
        lcc == cross_check(ctx, pr0, pc0, horiz)
        pos_idx == -(wlen + 1)
        left_rack(letter) ==
            LET child == get_child(ctx.gdata, offset, C2I[letter])
            IN  IF rack.count[letter] <= 0 \/ ~cc_allows(lcc, letter) \/ child < 0
                THEN <<>>
                ELSE gen_left_part(ctx, anchor_r0, anchor_c0, horiz, child,
                                   <<letter>> \o wchars,
                                   [rack EXCEPT !.count[letter] = @ - 1],
                                   limit - 1, blanks_rem, blanks_used)
        left_blank(kid) ==
            IF kid[1] = DELIMITER \/ ~cc_allows(lcc, kid[1])
            THEN <<>>
            ELSE gen_left_part(ctx, anchor_r0, anchor_c0, horiz, kid[2],
                               <<kid[1]>> \o wchars, rack, limit - 1, blanks_rem - 1,
                               Append(blanks_used, pos_idx))
        leftward == Flatten([k \in 1..Len(rack.order) |-> left_rack(rack.order[k])])
                    \o (IF blanks_rem > 0
                        THEN Flatten([k \in 1..Len(kids) |-> left_blank(kids[k])])
                        ELSE <<>>)
        \* Try placing the first letter AT the anchor
        acc == cross_check(ctx, anchor_r0, anchor_c0, horiz)
        ar == IF horiz THEN anchor_r0 ELSE anchor_r0 + 1
        ac == IF horiz THEN anchor_c0 + 1 ELSE anchor_c0
        at_rack(letter) ==
            LET letter_child == get_child(ctx.gdata, offset, C2I[letter])
                dc == get_child(ctx.gdata, letter_child, DELIM)
            IN  IF rack.count[letter] <= 0 \/ ~cc_allows(acc, letter) \/ letter_child < 0
                THEN <<>>
                ELSE IF dc < 0
                THEN <<>>
                ELSE extend_right(ctx, ar, ac, horiz, dc, <<letter>>,
                                  [rack EXCEPT !.count[letter] = @ - 1],
                                  anchor_r0, anchor_c0, blanks_rem, blanks_used)
        at_blank(kid) ==
            LET dc == get_child(ctx.gdata, kid[2], DELIM)
            IN  IF kid[1] = DELIMITER \/ ~cc_allows(acc, kid[1])
                THEN <<>>
                ELSE IF dc < 0
                THEN <<>>
                ELSE extend_right(ctx, ar, ac, horiz, dc, <<kid[1]>>, rack,
                                  anchor_r0, anchor_c0, blanks_rem - 1, <<0>>)
        at_anchor == Flatten([k \in 1..Len(rack.order) |-> at_rack(rack.order[k])])
                     \o (IF blanks_rem > 0
                         THEN Flatten([k \in 1..Len(kids) |-> at_blank(kids[k])])
                         ELSE <<>>)
    IN  IF limit > 0 /\ (pr0 < 0 \/ pc0 < 0)
        THEN crossing
        ELSE crossing
             \o (IF limit > 0 THEN leftward ELSE <<>>)
             \o (IF wlen = 0 THEN at_anchor ELSE <<>>)

\* extend_from_existing: "Navigate GADDAG with reversed prefix", from letter
\* i (1-based) on; the offset reached, or -1
RECURSIVE follow_prefix(_, _, _, _)
follow_prefix(gdata, reversed_prefix, i, offset) ==
    IF i > Len(reversed_prefix)
    THEN offset
    ELSE LET child == get_child(gdata, offset, C2I[reversed_prefix[i]])
         IN  IF child < 0 THEN -1
                          ELSE follow_prefix(gdata, reversed_prefix, i + 1, child)

\* an extend_from_existing that starts a new word at the anchor, leaving the
\* tiles before it out
extend_from_existing_apart(ctx, anchor_r0, anchor_c0, horiz, rack_counter, blanks_rem) ==
    gen_left_part(ctx, anchor_r0, anchor_c0, horiz, 0, <<>>, rack_counter, 0, blanks_rem, <<>>)

\* extend_from_existing: the record_move calls it makes, in order
extend_from_existing(ctx, anchor_r0, anchor_c0, horiz, rack_counter, blanks_rem) ==
    LET reversed_prefix == IF horiz THEN perp_tiles(ctx.grid, anchor_r0, anchor_c0, 0, -1)
                                    ELSE perp_tiles(ctx.grid, anchor_r0, anchor_c0, -1, 0)
        prefix == Reverse(reversed_prefix)
        sr0 == IF horiz THEN anchor_r0 ELSE anchor_r0 - Len(prefix)
        sc0 == IF horiz THEN anchor_c0 - Len(prefix) ELSE anchor_c0
        offset == follow_prefix(ctx.gdata, reversed_prefix, 1, 0)
        dc == get_child(ctx.gdata, offset, DELIM)
    IN  IF offset < 0
        THEN <<>>
        ELSE IF dc < 0
        THEN <<>>
        ELSE extend_right(ctx, anchor_r0, anchor_c0, horiz, dc, prefix, rack_counter,
                          sr0, sc0, blanks_rem, <<>>)

\* the test "(r, c) has a tile next to it" of the anchor search, of
\* left_limit and of record_move
has_adjacent_tile(g, r, c) ==
    \/ (r > 0 /\ GridAt(g, r - 1, c) # None)
    \/ (r < 14 /\ GridAt(g, r + 1, c) # None)
    \/ (c > 0 /\ GridAt(g, r, c - 1) # None)
    \/ (c < 14 /\ GridAt(g, r, c + 1) # None)

\* empty_board
empty_board(g) == \A r \in 0..14, c \in 0..14 : GridAt(g, r, c) = None

\* anchors_0, in row-major order
anchors_0(g) ==
    IF empty_board(g)
    THEN <<(<<CENTER_ROW - 1, CENTER_COL - 1>>)>>
    ELSE SelectSeq([k \in 1..225 |-> <<(k - 1) \div 15, (k - 1) % 15>>],
                   LAMBDA rc : GridAt(g, rc[1], rc[2]) = None
                                   /\ has_adjacent_tile(g, rc[1], rc[2]))

\* left_limit: the loop from the cell (r, c) leftward / upward
RECURSIVE left_limit_from(_, _, _, _)
left_limit_from(g, r, c, horiz) ==
    IF (IF horiz THEN c < 0 ELSE r < 0)
    THEN 0
    ELSE IF GridAt(g, r, c) # None \/ has_adjacent_tile(g, r, c)
    THEN 0
    ELSE 1 + (IF horiz THEN left_limit_from(g, r, c - 1, horiz)
                       ELSE left_limit_from(g, r - 1, c, horiz))

\* a left_limit that leaves no room for a left part
left_limit_none(g, anchor_r0, anchor_c0, horiz) == 0

left_limit(g, anchor_r0, anchor_c0, horiz) ==
    IF horiz THEN left_limit_from(g, anchor_r0, anchor_c0 - 1, horiz)
             ELSE left_limit_from(g, anchor_r0 - 1, anchor_c0, horiz)

\* Counter(rack_letters): the distinct letters in order of first occurrence
\* and the count of each
Counter(rack_letters) ==
    [order |-> SelectSeq([k \in 1..Len(rack_letters) |->
                             IF \E j \in 1..(k - 1) : rack_letters[j] = rack_letters[k]
                             THEN None ELSE rack_letters[k]],
                         LAMBDA x : x # None),
     count |-> [letter \in Range(rack_letters) |->
                   Cardinality({k \in 1..Len(rack_letters) : rack_letters[k] = letter})]]

\* the main loop's body for one anchor and one direction
from_anchor(ctx, ar0, ac0, horiz, rack_counter, num_blanks) ==
    LET has_left == IF horiz THEN ac0 > 0 /\ GridAt(ctx.grid, ar0, ac0 - 1) # None
                             ELSE ar0 > 0 /\ GridAt(ctx.grid, ar0 - 1, ac0) # None
    IN  IF has_left
        THEN extend_from_existing(ctx, ar0, ac0, horiz, rack_counter, num_blanks)
        ELSE gen_left_part(ctx, ar0, ac0, horiz, 0, <<>>, rack_counter,
                           left_limit(ctx.grid, ar0, ac0, horiz), num_blanks, <<>>)

\* the main loop: every record_move call of the search, in order
record_calls(ctx, rack_counter, num_blanks) ==
    LET anchors == anchors_0(ctx.grid)
    IN  Flatten([k \in 1..(2 * Len(anchors)) |->
                    from_anchor(ctx, anchors[(k + 1) \div 2][1], anchors[(k + 1) \div 2][2],
                                k % 2 = 1, rack_counter, num_blanks)])

\* record_move: "Bounds check" and "Validate word" pass
rm_admits(ctx, call) ==
    /\ call.start_r0 >= 0
    /\ call.start_c0 >= 0
    /\ IF call.horiz THEN call.start_c0 + call.wlen <= 15
                     ELSE call.start_r0 + call.wlen <= 15
    /\ IF call.wlen = 2 THEN call.word_chars \in VALID_TWO_LETTER
                        ELSE dictionary_is_valid(ctx.words, call.word_chars)

\* a dedup key that tells the blank assignments of a play apart
rm_key_with_blanks(call) ==
    <<call.word_chars, call.start_r0, call.start_c0, call.horiz, call.blanks_used>>

\* record_move: the dedup key
rm_key(call) == <<call.word_chars, call.start_r0, call.start_c0, call.horiz>>

\* record_move: the connectivity loop from letter i (0-based) on, with the
\* running <<connects, uses_new>>
RECURSIVE rm_connectivity(_, _, _, _)
rm_connectivity(g, call, i, acc) ==
    IF i >= call.wlen
    THEN acc
    ELSE LET rc == Cell0(call.start_r0, call.start_c0, call.horiz, i)
         IN  IF GridAt(g, rc[1], rc[2]) # None
             THEN IF acc[2] THEN <<TRUE, TRUE>>
                            ELSE rm_connectivity(g, call, i + 1, <<TRUE, acc[2]>>)
             ELSE IF acc[1] THEN <<TRUE, TRUE>>
                  ELSE IF has_adjacent_tile(g, rc[1], rc[2]) THEN <<TRUE, TRUE>>
                  ELSE rm_connectivity(g, call, i + 1, <<acc[1], TRUE>>)

\* record_move without its connectivity checks: laying a tile is enough
rm_connected_unchecked(ctx, call) ==
    rm_connectivity(ctx.grid, call, 0, <<FALSE, FALSE>>)[2]

\* record_move: the checks after the dedup pass
rm_connected(ctx, call) ==
    LET cu == rm_connectivity(ctx.grid, call, 0, <<FALSE, FALSE>>)
    IN  /\ cu[2]
        /\ IF empty_board(ctx.grid)
           THEN \E i \in 0..(call.wlen - 1) :
                    Cell0(call.start_r0, call.start_c0, call.horiz, i) = <<7, 7>>
           ELSE cu[1]

\* record_move: the dict appended to moves
rm_move(ctx, call) ==
    LET sm == score_move(ctx.grid, call.word_chars, call.wlen, call.start_r0,
                         call.start_c0, call.horiz, Range(call.blanks_used),
                         ctx.board_blank_set)
    IN  [word |-> call.word_chars, row |-> call.start_r0 + 1, col |-> call.start_c0 + 1,
         direction |-> IF call.horiz THEN "H" ELSE "V", score |-> sm.total,
         crosswords |-> sm.crosswords, blanks_used |-> call.blanks_used]

\* moves after all record_move calls: a call is appended when it passes the
\* bounds and word checks, no earlier call that passed them had its key
\* (seen), and it passes the connectivity checks
recorded_moves(ctx, rm_calls) ==
    LET admitted == SelectSeq(rm_calls, LAMBDA call : rm_admits(ctx, call))
        keys == Flatten([k \in 1..Len(admitted) |-> <<rm_key(admitted[k])>>])
        fresh == SelectSeq([k \in 1..Len(admitted) |-> k],
                           LAMBDA k : \A j \in 1..(k - 1) : keys[j] # keys[k])
        kept == SelectSeq(fresh, LAMBDA k : rm_connected(ctx, admitted[k]))
    IN  Flatten([n \in 1..Len(kept) |-> <<rm_move(ctx, admitted[kept[n]])>>])

\* the moves left in the order they were recorded in
sort_by_score_skipped(ms) == ms

\* moves.sort(key=lambda m: -m['score']): a stable sort
sort_by_score(ms) ==
    LET n == Len(ms)
        place == Flatten([k \in 1..n |->
                     <<Cardinality({j \in 1..n :
                                       \/ ms[j].score > ms[k].score
                                       \/ (ms[j].score = ms[k].score /\ j < k)}) + 1>>])
    IN  [p \in 1..n |-> ms[CHOOSE k \in 1..n : place[k] = p]]

\* find_all_moves_opt(board, gaddag, rack_str, board_blanks) with a
\* dictionary holding words
find_all_moves_opt(g, gdata, words, rack_str, board_blanks) ==
    LET num_blanks == Len(SelectSeq(rack_str, LAMBDA t : t = "?"))
        rack_letters == SelectSeq(rack_str, LAMBDA t : t # "?")
        ctx == [grid |-> g, gdata |-> gdata, words |-> words,
                board_blank_set |-> {<<b[1] - 1, b[2] - 1>> : b \in Range(board_blanks)}]
    IN  IF rack_letters = <<>> /\ num_blanks = 0
        THEN <<>>
        ELSE sort_by_score(recorded_moves(ctx, record_calls(ctx, Counter(rack_letters),
                                                            num_blanks)))

(***************************************************************************)
(* engine/move_finder.py: find_best_score_opt.  Its get_child, cross_check, *)
(* extend_right, extend_from_existing, anchors_0 and left_limit are those   *)
(* of find_all_moves_opt with the child lookup written out in place; its    *)
(* gen_left_part and its recorder differ.                                   *)
(***************************************************************************)
\* find_best_score_opt's gen_left_part: the try_record_best calls it makes,
\* in order
RECURSIVE best_gen_left_part(_, _, _, _, _, _, _, _, _, _)
best_gen_left_part(ctx, anchor_r0, anchor_c0, horiz, offset, wchars, rack, limit, blanks_rem, blanks_used) ==
    LET wlen == Len(wchars)
        kids == iter_children(ctx.gdata, offset)
        delim_child == get_child(ctx.gdata, offset, DELIM)
        sr0 == IF horiz THEN anchor_r0 ELSE anchor_r0 - wlen
        sc0 == IF horiz THEN anchor_c0 - wlen ELSE anchor_c0
        fixed_blanks == [k \in 1..Len(blanks_used) |->
                            IF blanks_used[k] < 0 THEN wlen + blanks_used[k]
                                                  ELSE blanks_used[k]]
        crossing == IF delim_child >= 0
                    THEN extend_right(ctx, anchor_r0, anchor_c0, horiz, delim_child, wchars,
                                      rack, sr0, sc0, blanks_rem, fixed_blanks)
                    ELSE <<>>
        pr0 == IF horiz THEN anchor_r0 ELSE anchor_r0 - wlen - 1
        pc0 == IF horiz THEN anchor_c0 - wlen - 1 ELSE anchor_c0
        lcc == cross_check(ctx, pr0, pc0, horiz)
        pos_idx == -(wlen + 1)
        left_rack(letter) ==
            LET child == get_child(ctx.gdata, offset, C2I[letter])
            IN  IF rack.count[letter] <= 0 \/ ~cc_allows(lcc, letter) \/ child < 0
                THEN <<>>
                ELSE best_gen_left_part(ctx, anchor_r0, anchor_c0, horiz, child,
                                        <<letter>> \o wchars,
                                        [rack EXCEPT !.count[letter] = @ - 1],
                                        limit - 1, blanks_rem, blanks_used)
        left_blank(kid) ==
            IF kid[1] = DELIMITER \/ ~cc_allows(lcc, kid[1])
            THEN <<>>
            ELSE best_gen_left_part(ctx, anchor_r0, anchor_c0, horiz, kid[2],
                                    <<kid[1]>> \o wchars, rack, limit - 1, blanks_rem - 1,
                                    Append(blanks_used, pos_idx))
        leftward == Flatten([k \in 1..Len(rack.order) |-> left_rack(rack.order[k])])
                    \o (IF blanks_rem > 0
                        THEN Flatten([k \in 1..Len(kids) |-> left_blank(kids[k])])
                        ELSE <<>>)
        \* the first letter AT the anchor: _root_children and _level2_cache hold
        \* the children of the root and of its children
        acc == cross_check(ctx, anchor_r0, anchor_c0, horiz)
        ar == IF horiz THEN anchor_r0 ELSE anchor_r0 + 1
        ac == IF horiz THEN anchor_c0 + 1 ELSE anchor_c0
        root_kids == iter_children(ctx.gdata, 0)
        at_rack(letter) ==
            LET letter_child == get_child(ctx.gdata, 0, C2I[letter])
                dc == get_child(ctx.gdata, letter_child, DELIM)
            IN  IF rack.count[letter] <= 0 \/ ~cc_allows(acc, letter) \/ letter_child < 0
                THEN <<>>
                ELSE IF dc < 0
                THEN <<>>
                ELSE extend_right(ctx, ar, ac, horiz, dc, <<letter>>,
                                  [rack EXCEPT !.count[letter] = @ - 1],
                                  anchor_r0, anchor_c0, blanks_rem, blanks_used)
        at_blank(kid) ==
            LET dc == get_child(ctx.gdata, kid[2], DELIM)
            IN  IF kid[1] = DELIMITER \/ ~cc_allows(acc, kid[1])
                THEN <<>>
                ELSE IF dc < 0
                THEN <<>>
                ELSE extend_right(ctx, ar, ac, horiz, dc, <<kid[1]>>, rack,
                                  anchor_r0, anchor_c0, blanks_rem - 1, <<0>>)
        at_anchor == Flatten([k \in 1..Len(rack.order) |-> at_rack(rack.order[k])])
                     \o (IF blanks_rem > 0
                         THEN Flatten([k \in 1..Len(root_kids) |-> at_blank(root_kids[k])])
                         ELSE <<>>)
    IN  IF limit > 0 /\ (pr0 < 0 \/ pc0 < 0)
        THEN crossing
        ELSE crossing
             \o (IF limit > 0 THEN leftward ELSE <<>>)
             \o (IF wlen = 0 /\ limit = 0 THEN at_anchor ELSE <<>>)

\* find_best_score_opt: the main loop's body for one anchor and one direction
best_from_anchor(ctx, ar0, ac0, horiz, rack_counter, num_blanks) ==
    LET has_left == IF horiz THEN ac0 > 0 /\ GridAt(ctx.grid, ar0, ac0 - 1) # None
                             ELSE ar0 > 0 /\ GridAt(ctx.grid, ar0 - 1, ac0) # None
    IN  IF has_left
        THEN extend_from_existing(ctx, ar0, ac0, horiz, rack_counter, num_blanks)
        ELSE best_gen_left_part(ctx, ar0, ac0, horiz, 0, <<>>, rack_counter,
                                left_limit(ctx.grid, ar0, ac0, horiz), num_blanks, <<>>)

\* find_best_score_opt: every try_record_best call of the search, in order
best_calls(ctx, rack_counter, num_blanks) ==
    LET anchors == anchors_0(ctx.grid)
    IN  Flatten([k \in 1..(2 * Len(anchors)) |->
                    best_from_anchor(ctx, anchors[(k + 1) \div 2][1],
                                     anchors[(k + 1) \div 2][2], k % 2 = 1, rack_counter,
                                     num_blanks)])

\* try_record_best: the call passes the bounds, word and connectivity checks
\* (those of record_move, without the dedup) and reaches score_and_compare
try_record_best_scores(ctx, call) == rm_admits(ctx, call) /\ rm_connected(ctx, call)

\* score_and_compare: total, the sum score_move computes
score_and_compare_total(ctx, call) ==
    score_move(ctx.grid, call.word_chars, call.wlen, call.start_r0, call.start_c0,
               call.horiz, Range(call.blanks_used), ctx.board_blank_set).total

\* best = [0, None, 0, 0, None]
NoBest == [score |-> 0, word |-> None, row |-> 0, col |-> 0, direction |-> None]

\* score_and_compare over the calls that reach it, in order: "if total >
\* best[0]" keeps the earliest call of the greatest total, when that total
\* is above 0.  totals[k] is the total of reached[k].
best_after(reached, totals) ==
    IF \A k \in 1..Len(reached) : totals[k] <= 0
    THEN NoBest
    ELSE LET k == CHOOSE n \in 1..Len(reached) :
                      /\ \A j \in 1..Len(reached) : totals[j] <= totals[n]
                      /\ \A j \in 1..(n - 1) : totals[j] < totals[n]
         IN  [score |-> totals[k], word |-> reached[k].word_chars,
              row |-> reached[k].start_r0 + 1, col |-> reached[k].start_c0 + 1,
              direction |-> IF reached[k].horiz THEN "H" ELSE "V"]

\* find_best_score_opt: the tuple returned for the calls that reach
\* score_and_compare
best_of_scored(ctx, reached) ==
    best_after(reached,
               Flatten([k \in 1..Len(reached) |-> <<score_and_compare_total(ctx, reached[k])>>]))

\* find_best_score_opt(grid, gdata, rack_str, board_blank_set) with a
\* dictionary holding words and a fresh cross_cache
find_best_score_opt(g, gdata, words, rack_str, board_blank_set) ==
    LET num_blanks == Len(SelectSeq(rack_str, LAMBDA t : t = "?"))
        rack_letters == SelectSeq(rack_str, LAMBDA t : t # "?")
        ctx == [grid |-> g, gdata |-> gdata, words |-> words,
                board_blank_set |-> board_blank_set]
    IN  IF rack_letters = <<>> /\ num_blanks = 0
        THEN NoBest
        ELSE best_of_scored(ctx,
                 Listed(SelectSeq(best_calls(ctx, Counter(rack_letters), num_blanks),
                                  LAMBDA call : try_record_best_scores(ctx, call))))

(***************************************************************************)
(* bots/base_engine.py: get_legal_moves                                    *)
(***************************************************************************)
\* list.remove(x): the list without the first x
list_remove(lst, x) ==
    LET at == CHOOSE i \in 1..Len(lst) : lst[i] = x /\ \A j \in 1..(i - 1) : lst[j] # x
    IN  SubSeq(lst, 1, at - 1) \o SubSeq(lst, at + 1, Len(lst))

\* ord(ch) for a rack tile
ord(ch) == IF ch = "?" THEN 63 ELSE 65 + C2I[ch]

\* sorted(leave_letters)
sorted(lst) ==
    LET n == Len(lst)
        place == [k \in 1..n |->
                     Cardinality({j \in 1..n :
                                     \/ ord(lst[j]) < ord(lst[k])
                                     \/ (ord(lst[j]) = ord(lst[k]) /\ j < k)}) + 1]
    IN  [p \in 1..n |-> lst[CHOOSE k \in 1..n : place[k] = p]]

\* get_legal_moves: the loop over the letters of m['word'] from letter i
\* (0-based) on, with the running used and leave_letters
RECURSIVE enrich_from(_, _, _, _, _)
enrich_from(g, m, i, used, leave_letters) ==
    IF i >= Len(m.word)
    THEN [used |-> used, leave_letters |-> leave_letters]
    ELSE LET horizontal == m.direction = "H"
             r == IF horizontal THEN m.row ELSE m.row + i
             c == IF horizontal THEN m.col + i ELSE m.col
             letter == m.word[i + 1]
         IN  IF get_tile(g, r, c) # None
             THEN enrich_from(g, m, i + 1, used, leave_letters)
             ELSE IF i \in Range(m.blanks_used)
             THEN enrich_from(g, m, i + 1, Append(used, "?"),
                              IF "?" \in Range(leave_letters)
                              THEN list_remove(leave_letters, "?") ELSE leave_letters)
             ELSE IF letter \in Range(leave_letters)
             THEN enrich_from(g, m, i + 1, Append(used, letter),
                              list_remove(leave_letters, letter))
             ELSE IF "?" \in Range(leave_letters)
             THEN enrich_from(g, m, i + 1, Append(used, "?"),
                              list_remove(leave_letters, "?"))
             ELSE enrich_from(g, m, i + 1, used, leave_letters)

\* an enrichment that leaves the tiles it uses on the rack
enrich_keeping_rack(g, rack_str, m) ==
    LET e == enrich_from(g, m, 0, <<>>, rack_str)
    IN  [word |-> m.word, row |-> m.row, col |-> m.col, direction |-> m.direction,
         score |-> m.score, crosswords |-> m.crosswords, blanks_used |-> m.blanks_used,
         tiles_used |-> e.used, leave |-> sorted(rack_str)]

\* get_legal_moves: one move with tiles_used and leave added
enrich(g, rack_str, m) ==
    LET e == enrich_from(g, m, 0, <<>>, rack_str)
    IN  [word |-> m.word, row |-> m.row, col |-> m.col, direction |-> m.direction,
         score |-> m.score, crosswords |-> m.crosswords, blanks_used |-> m.blanks_used,
         tiles_used |-> e.used, leave |-> sorted(e.leave_letters)]

\* get_legal_moves: the loop that enriches each move found
enrich_all(g, rack_str, found) == [k \in 1..Len(found) |-> enrich(g, rack_str, found[k])]

\* get_legal_moves(board, rack, blanks_on_board) with the GADDAG gdata and a
\* dictionary holding words
get_legal_moves(g, gdata, words, rack_str, bb) ==
    enrich_all(g, rack_str, find_all_moves_opt(g, gdata, words, rack_str, bb))

(***************************************************************************)
(* Specification SpecBoard: a caller of Board.place_word, Board.place_move *)
(* and Board.undo_move.  place_move calls nest and are undone in reverse   *)
(* order, as the bots' lookahead does; while a place_move is pending no    *)
(* other call changes the grid behind its back (place_word, and a          *)
(* place_move that raises half way, are made with nothing pending).        *)
(***************************************************************************)
MaxCalls == 2
MaxDepth == 2

BoardWords == {<<"A", "T">>, <<"C", "A", "B">>}
BoardRows == {0, 8, 15}
BoardCols == {7, 8, 14}

NoCall == [op |-> "none", word |-> <<>>, row |-> 0, col |-> 0, horizontal |-> TRUE,
           before |-> EmptyGrid, raised |-> FALSE, expected |-> EmptyGrid]

BoardStart ==
    /\ grid = EmptyGrid
    /\ undo_stack = <<>>
    /\ grid_stack = <<>>
    /\ last_call = NoCall
    /\ calls = 0

NoAnswer == [asked |-> FALSE, word |-> <<>>, tree |-> FALSE, compact |-> FALSE]

GaddagStart ==
    /\ dict_words = {}
    /\ gaddag = EmptyGaddag
    /\ cdata = <<>>
    /\ answer = NoAnswer

NoScore == [done |-> FALSE]

ScoreStart ==
    /\ blanks_on_board = <<>>
    /\ scored = NoScore
    /\ plays = 0

MoveStart ==
    /\ cur_rack = <<>>
    /\ moves = <<>>
    /\ best_found = <<>>

\* no file at the path, and no load made
NotLoaded == [done |-> FALSE]

LoadStart ==
    /\ file = <<>>
    /\ loaded = NotLoaded

\* an idle worker process that has run nothing
NoTask == [running |-> FALSE]

NoSim == [sim_i |-> 0, n_sims |-> 0, running_sum |-> 0, running_sum_sq |-> 0, scores |-> <<>>]

WorkerStart ==
    /\ w_rng = 0
    /\ w_task = NoTask
    /\ w_sim = NoSim
    /\ w_done = <<>>

\* no pick_move call yet: the module's _pool is None
NoPick == [active |-> FALSE]

NoCtl ==
    [i |-> 0, late |-> FALSE, best_move |-> <<>>, best |-> [num |-> -1, den |-> 0],
     results |-> <<>>, seen |-> <<>>]

NoOutcome == [returned |-> FALSE]

PickStart ==
    /\ _pool = None
    /\ p_call = NoPick
    /\ p_futures = <<>>
    /\ p_order = <<>>
    /\ p_ctl = NoCtl
    /\ p_out = NoOutcome

\* no game is being played
NoGame == [pc |-> "none"]

NoSearch == [active |-> FALSE]

GameStart ==
    /\ game = NoGame
    /\ bot = NoSearch

\* no _worker_eval_near_endgame call made
NoNear == [running |-> FALSE, done |-> FALSE]

NearStart == endgame = NoNear

OuterStart == LoadStart /\ WorkerStart /\ PickStart /\ GameStart /\ NearStart

EngineStart == BoardStart /\ GaddagStart /\ ScoreStart /\ MoveStart

BoardInit == BoardStart /\ GaddagStart /\ ScoreStart /\ MoveStart /\ OuterStart

PlaceWord(word, row, col, horizontal) ==
    /\ calls < MaxCalls
    /\ undo_stack = <<>>
    /\ LET res == place_word(grid, word, row, col, horizontal)
       IN  /\ grid' = res.grid
           /\ last_call' = [op |-> "place_word", word |-> word, row |-> row, col |-> col,
                            horizontal |-> horizontal, before |-> grid,
                            raised |-> res.raised, expected |-> res.grid]
    /\ calls' = calls + 1
    /\ UNCHANGED <<undo_stack, grid_stack>>
    /\ UNCHANGED <<gaddag_vars, score_vars, move_vars, outer_vars>>

PlaceMove(word, row, col, horizontal) ==
    /\ calls < MaxCalls
    /\ Len(undo_stack) < MaxDepth
    /\ LET res == place_move(grid, word, row, col, horizontal)
       IN  /\ res.raised => undo_stack = <<>>
           /\ grid' = res.grid
           /\ undo_stack' = IF res.raised THEN undo_stack ELSE Append(undo_stack, res.ret)
           /\ grid_stack' = IF res.raised THEN grid_stack ELSE Append(grid_stack, grid)
           /\ last_call' = [op |-> "place_move", word |-> word, row |-> row, col |-> col,
                            horizontal |-> horizontal, before |-> grid,
                            raised |-> res.raised, expected |-> res.grid]
    /\ calls' = calls + 1
    /\ UNCHANGED <<gaddag_vars, score_vars, move_vars, outer_vars>>

UndoMove ==
    /\ undo_stack # <<>>
    /\ LET n == Len(undo_stack)
       IN  /\ grid' = undo_move(grid, undo_stack[n])
           /\ undo_stack' = SubSeq(undo_stack, 1, n - 1)
           /\ grid_stack' = SubSeq(grid_stack, 1, n - 1)
           /\ last_call' = [op |-> "undo_move", word |-> undo_stack[n], row |-> 0,
                            col |-> 0, horizontal |-> TRUE, before |-> grid,
                            raised |-> FALSE, expected |-> grid_stack[n]]
    /\ UNCHANGED calls
    /\ UNCHANGED <<gaddag_vars, score_vars, move_vars, outer_vars>>

BoardNext ==
    \/ \E word \in BoardWords, row \in BoardRows, col \in BoardCols, h \in BOOLEAN :
           PlaceWord(word, row, col, h)
    \/ \E word \in BoardWords, row \in BoardRows, col \in BoardCols, h \in BOOLEAN :
           PlaceMove(word, row, col, h)
    \/ UndoMove

SpecBoard == BoardInit /\ [][BoardNext]_vars

(***************************************************************************)
(* Specification SpecGaddag: a GADDAG is built once from a word set, in    *)
(* tree form and from that in packed form, and is then asked is_word.      *)
(***************************************************************************)
MaxQueryLen == 3

DictUniverse == {<<"A">>, <<"C", "T">>, <<"C", "A", "T">>, <<"A", "C", "T">>}

QueryLetters == {"A", "C", "T"}

QueryStrings == UNION {[1..n -> QueryLetters] : n \in 0..MaxQueryLen}

GaddagInit == BoardStart /\ GaddagStart /\ ScoreStart /\ MoveStart /\ OuterStart

BuildFromWords(words) ==
    /\ cdata = <<>>
    /\ dict_words' = words
    /\ gaddag' = build_from_words(words)
    /\ cdata' = build_from_gaddag(build_from_words(words))
    /\ UNCHANGED answer
    /\ UNCHANGED <<board_vars, score_vars, move_vars, outer_vars>>

IsWord(word) ==
    /\ cdata # <<>>
    /\ answer' = [asked |-> TRUE, word |-> word, tree |-> is_word(gaddag, word),
                  compact |-> compact_is_word(cdata, word)]
    /\ UNCHANGED <<dict_words, gaddag, cdata>>
    /\ UNCHANGED <<board_vars, score_vars, move_vars, outer_vars>>

GaddagNext ==
    \/ \E words \in SUBSET DictUniverse : BuildFromWords(words)
    \/ \E word \in QueryStrings : IsWord(word)

SpecGaddag == GaddagInit /\ [][GaddagNext]_vars

(***************************************************************************)
(* Specification SpecScore: plays are scored on the current board by both  *)
(* scorers and then laid as play_game lays a chosen move.  A play lays at  *)
(* least one and at most RACK_SIZE tiles of one rack on free cells of the  *)
(* grid, matches the tiles it spans, and names as blanks only tiles it     *)
(* lays.                                                                   *)
(***************************************************************************)
MaxPlays == 2

ScoreWords == {<<"Z", "A">>, <<"R", "E", "T", "A", "I", "N", "S">>}

ScoreStarts == {<<1, 1>>, <<4, 1>>, <<7, 4>>, <<8, 4>>}

BlankChoices == {<<>>, <<0>>, <<0, 3>>}

\* the 0-based indices of the letters of the play that fall on free cells
NewIndices(g, word, row, col, horizontal) ==
    {i \in 0..(Len(word) - 1) :
        get_tile(g, WordCell(row, col, horizontal, i + 1)[1],
                 WordCell(row, col, horizontal, i + 1)[2]) = None}

\* play_game: "Track blanks placed on board"
track_blanks(bb, word, row, col, horizontal, blanks_used) ==
    bb \o [k \in 1..Len(blanks_used) |->
              LET bi == IF blanks_used[k] < 0 THEN -blanks_used[k] ELSE blanks_used[k]
              IN  IF horizontal THEN <<row, col + bi, word[bi + 1]>>
                                ELSE <<row + bi, col, word[bi + 1]>>]

ScoreInit == BoardStart /\ GaddagStart /\ ScoreStart /\ MoveStart /\ OuterStart

ScorePlay(word, row, col, horizontal, blanks_used) ==
    /\ plays < MaxPlays
    /\ \A i \in 1..Len(word) :
           LET rc == WordCell(row, col, horizontal, i)
           IN  /\ is_valid_position(rc[1], rc[2])
               /\ get_tile(grid, rc[1], rc[2]) \in {None, word[i]}
    /\ NewIndices(grid, word, row, col, horizontal) # {}
    /\ Cardinality(NewIndices(grid, word, row, col, horizontal)) <= RACK_SIZE
    /\ Range(blanks_used) \subseteq NewIndices(grid, word, row, col, horizontal)
    /\ scored' = [done |-> TRUE, g |-> grid, bb |-> blanks_on_board, word |-> word,
                  row |-> row, col |-> col, horizontal |-> horizontal,
                  blanks_used |-> blanks_used,
                  inline |-> score_move(grid, word, Len(word), row - 1, col - 1,
                                        horizontal, Range(blanks_used),
                                        {<<b[1] - 1, b[2] - 1>> :
                                            b \in Range(blanks_on_board)}),
                  calc |-> calculate_move_score(grid, word, row, col, horizontal,
                                                blanks_used, blanks_on_board)]
    /\ grid' = place_word(grid, word, row, col, horizontal).grid
    /\ blanks_on_board' = track_blanks(blanks_on_board, word, row, col, horizontal,
                                       blanks_used)
    /\ plays' = plays + 1
    /\ UNCHANGED <<undo_stack, grid_stack, last_call, calls>>
    /\ UNCHANGED <<gaddag_vars, move_vars, outer_vars>>

ScoreNext ==
    \E word \in ScoreWords, start \in ScoreStarts, h \in BOOLEAN, blanks \in BlankChoices :
        ScorePlay(word, start[1], start[2], h, blanks)

SpecScore == ScoreInit /\ [][ScoreNext]_vars

(***************************************************************************)
(* Specification SpecMoves: the turns of play_game.  The GADDAG is built   *)
(* from the dictionary's words; each turn get_legal_moves is called for    *)
(* the rack of the player to move, who passes or picks one of the moves,   *)
(* which is then laid on the board.  The turns are taken from the start   *)
(* of a game or from the position CornerGrid later in a game.  MaxMoves    *)
(* bounds the moves laid and MaxPick the moves, best first, a player picks *)
(* from.                                                                   *)
(***************************************************************************)
MaxMoves == 1
MaxPick == 5

MoveWords ==
    {<<"C", "T">>, <<"C", "A", "T">>, <<"A", "C", "T">>, <<"C", "A", "T", "S">>,
     <<"T", "A", "T">>}

Racks == {<<"C", "A", "T">>, <<"A", "T">>, <<"S">>, <<"T", "?">>}

\* The plays of a game that has reached the right edge of the board, each a
\* legal play of a word of MoveWords or of the 2-letter list on the position
\* the plays before it leave.
CornerPlays ==
    <<[word |-> <<"C", "A", "T", "S">>, row |-> 8, col |-> 8, horizontal |-> TRUE],
      [word |-> <<"C", "A", "T", "S">>, row |-> 5, col |-> 11, horizontal |-> FALSE],
      [word |-> <<"C", "A", "T", "S">>, row |-> 5, col |-> 11, horizontal |-> TRUE],
      [word |-> <<"A", "S">>, row |-> 4, col |-> 14, horizontal |-> FALSE],
      [word |-> <<"A", "T">>, row |-> 4, col |-> 14, horizontal |-> TRUE]>>

\* the grid after the first n plays of played, each laid by Board.place_word
RECURSIVE Replay(_, _)
Replay(played, n) ==
    IF n = 0
    THEN EmptyGrid
    ELSE place_word(Replay(played, n - 1), played[n].word, played[n].row, played[n].col,
                    played[n].horizontal).grid

CornerGrid == Replay(CornerPlays, Len(CornerPlays))

MoveInit ==
    /\ grid \in {EmptyGrid, CornerGrid}
    /\ undo_stack = <<>>
    /\ grid_stack = <<>>
    /\ last_call = NoCall
    /\ calls = 0
    /\ ScoreStart
    /\ MoveStart
    /\ OuterStart
    /\ dict_words = MoveWords
    /\ gaddag = build_from_words(MoveWords)
    /\ cdata = build_from_gaddag(build_from_words(MoveWords))
    /\ answer = NoAnswer

GetLegalMoves(rack_str) ==
    /\ cur_rack = <<>>
    /\ cur_rack' = rack_str
    /\ moves' = get_legal_moves(grid, cdata, dict_words, rack_str, blanks_on_board)
    /\ best_found' = <<>>
    /\ UNCHANGED <<board_vars, gaddag_vars, score_vars, outer_vars>>

\* find_best_score_opt for the position and rack of the turn
FindBestScore ==
    /\ cur_rack # <<>>
    /\ best_found = <<>>
    /\ best_found' = find_best_score_opt(grid, cdata, dict_words, cur_rack,
                                         {<<b[1] - 1, b[2] - 1>> : b \in Range(blanks_on_board)})
    /\ UNCHANGED <<cur_rack, moves>>
    /\ UNCHANGED <<board_vars, gaddag_vars, score_vars, outer_vars>>

PlayMove(k) ==
    /\ cur_rack # <<>>
    /\ plays < MaxMoves
    /\ LET chosen == moves[k]
           horizontal == chosen.direction = "H"
       IN  /\ grid' = place_word(grid, chosen.word, chosen.row, chosen.col, horizontal).grid
           /\ blanks_on_board' = track_blanks(blanks_on_board, chosen.word, chosen.row,
                                              chosen.col, horizontal, chosen.blanks_used)
    /\ plays' = plays + 1
    /\ cur_rack' = <<>>
    /\ moves' = <<>>
    /\ best_found' = <<>>
    /\ UNCHANGED <<undo_stack, grid_stack, last_call, calls, scored>>
    /\ UNCHANGED <<gaddag_vars, outer_vars>>

PassTurn ==
    /\ cur_rack # <<>>
    /\ cur_rack' = <<>>
    /\ moves' = <<>>
    /\ best_found' = <<>>
    /\ UNCHANGED <<board_vars, gaddag_vars, score_vars, outer_vars>>

MoveNext ==
    \/ \E rack_str \in Racks : GetLegalMoves(rack_str)
    \/ FindBestScore
    \/ \E k \in 1..(IF Len(moves) < MaxPick THEN Len(moves) ELSE MaxPick) : PlayMove(k)
    \/ PassTurn

SpecMoves == MoveInit /\ [][MoveNext]_vars

(***************************************************************************)
(* engine/gaddag_compact.py: CompactGADDAG.save and CompactGADDAG.load.    *)
(* A file is the sequence of its bytes; f.read(n) returns the next n       *)
(* bytes, or as many as are left.                                          *)
(***************************************************************************)
\* b'CGDG'
MAGIC == <<67, 71, 68, 71>>

\* CompactGADDAG.save: the bytes written
save(word_count, data) == MAGIC \o PackU32(word_count) \o PackU32(Len(data)) \o data

\* f.read(n) at position pos (0-based)
file_read(f, pos, n) == SubSeq(f, pos + 1, IF pos + n < Len(f) THEN pos + n ELSE Len(f))

\* CompactGADDAG.load.  raised names the exception that left load, or is
\* None when load returned the object with _word_count and _data.
load(f) ==
    LET magic == file_read(f, 0, 4)
        wc_bytes == file_read(f, 4, 4)
        len_bytes == file_read(f, 8, 4)
        data_len == UnpackU32(len_bytes, 0)
    IN  IF magic # MAGIC
        THEN [raised |-> "ValueError"]
        ELSE IF Len(wc_bytes) < 4 \/ Len(len_bytes) < 4
        THEN [raised |-> "struct.error"]
        ELSE [raised |-> None, word_count |-> UnpackU32(wc_bytes, 0),
              data |-> file_read(f, 12, data_len)]

(***************************************************************************)
(* Specification SpecLoad: a file is put at the path, whole or cut short,  *)
(* and CompactGADDAG.load is called on it.  The files are those save       *)
(* writes for a root with one child, with the magic, the declared payload  *)
(* length and the child's offset as written or changed.                    *)
(***************************************************************************)
MaxOffset == 8
MaxSlack == 1

\* a payload: a root with the one child A at child_offset, and a terminal
\* node without children at offset 6
OneChildPayload(child_offset) == <<1, 0>> \o PackU32(child_offset) \o <<128>>

LoadMagics == {MAGIC, <<67, 71, 68, 88>>}

\* the file with the given magic whose header declares declared payload bytes
FileOf(magic, declared, data) == magic \o PackU32(1) \o PackU32(declared) \o data

\* the files as written: the magic and the child's offset as given, and a
\* declared length within MaxSlack of the payload's length
WholeFiles ==
    {FileOf(magic, Len(OneChildPayload(child_offset)) + slack - MaxSlack,
            OneChildPayload(child_offset)) :
        magic \in LoadMagics, child_offset \in 0..MaxOffset, slack \in 0..(2 * MaxSlack)}

LoadInit == EngineStart /\ OuterStart

\* the first kept bytes of whole are put at the path
PutFile(whole, kept) ==
    /\ file = <<>>
    /\ file' = SubSeq(whole, 1, kept)
    /\ loaded' = NotLoaded
    /\ UNCHANGED <<engine_vars, worker_vars, pick_vars, game_vars, near_vars>>

Load ==
    /\ file # <<>>
    /\ ~loaded.done
    /\ loaded' = [done |-> TRUE, result |-> load(file)]
    /\ UNCHANGED <<file, engine_vars, worker_vars, pick_vars, game_vars, near_vars>>

RemoveFile ==
    /\ loaded.done
    /\ file' = <<>>
    /\ loaded' = NotLoaded
    /\ UNCHANGED <<engine_vars, worker_vars, pick_vars, game_vars, near_vars>>

LoadNext ==
    \/ \E whole \in WholeFiles : \E kept \in 1..Len(whole) : PutFile(whole, kept)
    \/ Load
    \/ RemoveFile

SpecLoad == LoadInit /\ [][LoadNext]_vars

(***************************************************************************)
(* bots/dadbot.py: the worker process and _worker_eval_candidate.          *)
(*                                                                         *)
(* The random module is the process's one generator: random.seed puts it   *)
(* in a state fixed by the seed and every draw moves it on.  Its states    *)
(* are the numbers below RngModulus and a draw is a step of a congruential *)
(* generator.  The sums are floats holding whole numbers, which are exact; *)
(* a float quotient is the fraction a/b in lowest terms.  The threshold    *)
(* es_se_threshold is held in tenths (1.5 is 15).                          *)
(***************************************************************************)
RngModulus == 64

\* random.seed(seed), on the generator in state rng
random_seed_kept(rng, seed) == rng

random_seed(rng, seed) == seed % RngModulus

\* one draw below n: the generator's next state and the number drawn
randbelow(rng, n) ==
    LET next == (rng * 5 + 3) % RngModulus
    IN  [state |-> next, value |-> next % n]

\* random.sample(population, k): picks i+1..k, from the n - i items not yet
\* picked, which the list pool keeps in front
RECURSIVE sample_from(_, _, _, _, _, _)
sample_from(rng, pool, n, k, i, result) ==
    IF i = k
    THEN [state |-> rng, value |-> result]
    ELSE LET drawn == randbelow(rng, n - i)
             j == drawn.value + 1
         IN  sample_from(drawn.state, [pool EXCEPT ![j] = pool[n - i]], n, k, i + 1,
                         Append(result, pool[j]))

random_sample(rng, population, k) ==
    sample_from(rng, population, Len(population), k, 0, <<>>)

RECURSIVE gcd(_, _)
gcd(a, b) == IF b = 0 THEN a ELSE gcd(b, a % b)

\* a / b on floats holding whole numbers, b > 0
true_div(a, b) ==
    LET g == gcd(IF a < 0 THEN -a ELSE a, b)
    IN  [num |-> a \div g, den |-> b \div g]

\* the items of a set, as Python iterates over it
RECURSIVE list_of(_)
list_of(S) ==
    IF S = {}
    THEN <<>>
    ELSE LET x == CHOOSE y \in S : TRUE
         IN  <<x>> \o list_of(S \ {x})

\* the cells (0-indexed) of a move's blanks, added to the board's blank set
move_blanks(bb_set, move) ==
    bb_set \cup
        {IF move.direction = "H"
         THEN <<move.row - 1, move.col - 1 + move.blanks_used[k]>>
         ELSE <<move.row - 1 + move.blanks_used[k], move.col - 1>> :
             k \in 1..Len(move.blanks_used)}

\* [(r + 1, c + 1, '') for r, c in bb_set]
blanks_1idx(bb_set) == [k \in 1..Cardinality(bb_set) |->
                           <<list_of(bb_set)[k][1] + 1, list_of(bb_set)[k][2] + 1, "">>]

\* opp_moves[0]['score'] if opp_moves else 0
first_score(opp_moves) == IF opp_moves # <<>> THEN opp_moves[1].score ELSE 0

\* the score of the best reply with opp_rack on grid g: the Python branch
best_reply_score(g, gdata, words, bb_set, opp_rack) ==
    first_score(get_legal_moves(g, gdata, words, opp_rack, blanks_1idx(bb_set)))

\* the early-stop test at the head of the simulation loop:
\*   variance = (running_sum_sq / n_sims) - (running_sum / n_sims) ** 2
\*   se = (variance / n_sims) ** 0.5
\* so variance > 0 iff n*sum_sq - sum^2 > 0, and se < t/10 iff
\* 100 * (n*sum_sq - sum^2) < t^2 * n^3
es_break(sim, es_min_sims, es_check_every, es_se_threshold) ==
    /\ sim.n_sims >= es_min_sims
    /\ sim.n_sims % es_check_every = 0
    /\ LET spread == sim.n_sims * sim.running_sum_sq - sim.running_sum * sim.running_sum
       IN  /\ spread > 0
           /\ 100 * spread < es_se_threshold * es_se_threshold * sim.n_sims * sim.n_sims * sim.n_sims

\* the loop is over: range(k_sims) is used up or the early stop breaks it
loop_over(task, sim) ==
    \/ sim.sim_i >= task.args.k_sims
    \/ es_break(sim, task.args.es_min_sims, task.args.es_check_every, task.args.es_se_threshold)

\* what _worker_eval_candidate returns
eval_result(task, sim) ==
    [word |-> task.args.move.word, row |-> task.args.move.row, col |-> task.args.move.col,
     direction |-> task.args.move.direction,
     avg_opp |-> IF sim.n_sims > 0 THEN true_div(sim.running_sum, sim.n_sims)
                                   ELSE true_div(0, 1),
     n_sims |-> sim.n_sims, sum |-> sim.running_sum, sum_sq |-> sim.running_sum_sq]

(***************************************************************************)
(* Specification SpecWorker: one worker process, given one                 *)
(* _worker_eval_candidate task after another.  A task is a step for its    *)
(* start (seeding, the board with the candidate laid), a step for each     *)
(* pass of the simulation loop and a step for its return.  MaxSims is      *)
(* k_sims and MaxSeed bounds the seeds.  Of the tasks finished, w_done     *)
(* keeps the last two.                                                     *)
(***************************************************************************)
MaxSims == 4
MaxSeed == 1

MoveData == build_from_gaddag(build_from_words(MoveWords))

\* the candidate: the best opening move for a rack with a blank
WorkerRacks == {<<"C", "A", "?">>}

WorkerMoves == {get_legal_moves(EmptyGrid, MoveData, MoveWords, rack, <<>>)[1] : rack \in WorkerRacks}

\* unseen pools: one of 8 tiles and one of 7, all of which are drawn each time
UnseenPools == {<<"S", "Z", "V", "V", "Q", "J", "K", "X">>, <<"S", "Z", "V", "V", "Q", "J", "K">>}

\* ES_SE_THRESHOLD of the blitz and deep tiers, in tenths
Thresholds == {15, 5}

TaskArgs ==
    [grid : {EmptyGrid}, bb_set_list : {{}}, move : WorkerMoves, unseen_pool : UnseenPools,
     k_sims : {MaxSims}, seed : 0..MaxSeed, es_min_sims : {2}, es_check_every : {2},
     es_se_threshold : Thresholds]

WorkerInit ==
    /\ BoardStart /\ ScoreStart /\ MoveStart /\ LoadStart /\ WorkerStart /\ PickStart
    /\ GameStart /\ NearStart
    /\ dict_words = MoveWords
    /\ gaddag = build_from_words(MoveWords)
    /\ cdata = MoveData
    /\ answer = NoAnswer

\* lines 700-746: the task is taken up
StartTask(args) ==
    /\ ~w_task.running
    /\ w_rng' = random_seed(w_rng, args.seed)
    /\ LET horizontal == args.move.direction = "H"
           placed == place_move(args.grid, args.move.word, args.move.row, args.move.col,
                                horizontal)
       IN  w_task' = [running |-> TRUE, args |-> args,
                      reseeded |-> w_rng # random_seed(w_rng, args.seed),
                      grid |-> placed.grid, placed |-> placed.ret,
                      bb_set |-> move_blanks(args.bb_set_list, args.move),
                      rack_draw |-> IF RACK_SIZE < Len(args.unseen_pool)
                                    THEN RACK_SIZE ELSE Len(args.unseen_pool)]
    /\ w_sim' = NoSim
    /\ w_done' = IF Len(w_done) > 1 THEN Tail(w_done) ELSE w_done
    /\ UNCHANGED <<engine_vars, load_vars, pick_vars, game_vars, near_vars>>

\* lines 762-767: the sums after a simulation in which the reply scores opp_score
sim_with(sim, opp_score) ==
    [sim_i |-> sim.sim_i + 1,
     n_sims |-> sim.n_sims + 1,
     running_sum |-> sim.running_sum + opp_score,
     running_sum_sq |-> sim.running_sum_sq + opp_score * opp_score,
     scores |-> Append(sim.scores, opp_score)]

\* lines 748-767: one pass of the loop that does not break
Simulate ==
    /\ w_task.running
    /\ ~loop_over(w_task, w_sim)
    /\ LET drawn == random_sample(w_rng, w_task.args.unseen_pool, w_task.rack_draw)
       IN  /\ w_rng' = drawn.state
           /\ w_sim' = sim_with(w_sim, best_reply_score(w_task.grid, cdata, dict_words,
                                                        w_task.bb_set, drawn.value))
    /\ UNCHANGED <<w_task, w_done, engine_vars, load_vars, pick_vars, game_vars, near_vars>>

\* lines 769-781: the loop is over and the task returns
ReturnResult ==
    /\ w_task.running
    /\ loop_over(w_task, w_sim)
    /\ w_done' = Append(w_done, [args |-> w_task.args, result |-> eval_result(w_task, w_sim),
                                 scores |-> w_sim.scores, reseeded |-> w_task.reseeded,
                                 grid |-> undo_move(w_task.grid, w_task.placed)])
    /\ w_task' = NoTask
    /\ w_sim' = NoSim
    /\ UNCHANGED <<w_rng, engine_vars, load_vars, pick_vars, game_vars, near_vars>>

WorkerNext ==
    \/ \E args \in TaskArgs : StartTask(args)
    \/ Simulate
    \/ ReturnResult

SpecWorker == WorkerInit /\ [][WorkerNext]_vars

(***************************************************************************)
(* bots/dadbot.py: leave values, the unseen pool and the 1-ply ranking.    *)
(*                                                                         *)
(* superleaves/deployed_leaves.pkl is read from a directory outside this   *)
(* repository; without it _load_leaves gives the empty table and every     *)
(* leave is valued by _formula_leave, whose values are whole numbers.      *)
(***************************************************************************)
TILE_DISTRIBUTION ==
    [ch \in LetterSet \cup {"?"} |->
        CASE ch = "E" -> 12
          [] ch = "A" -> 9
          [] ch \in {"I", "O"} -> 8
          [] ch \in {"R", "T"} -> 6
          [] ch \in {"N", "S"} -> 5
          [] ch \in {"D", "L"} -> 4
          [] ch \in {"G", "H", "U", "?"} -> 3
          [] ch \in {"B", "C", "F", "M", "P", "V", "W", "Y"} -> 2
          [] OTHER -> 1]

\* the keys of TILE_DISTRIBUTION in the order the dict holds them
DISTRIBUTION_KEYS == ALPHABET \o <<"?">>

\* _load_leaves()
leaves_table == << >>

\* _formula_leave(leave_str, bag_empty); vowels / n < 0.2 iff 5 * vowels < n,
\* and so on for the other three ratios
formula_leave(leave_str, bag_empty) ==
    IF leave_str = <<>>
    THEN 0
    ELSE LET n == Len(leave_str)
             count(S) == Cardinality({k \in 1..n : leave_str[k] \in S})
             vowels == count({"A", "E", "I", "O", "U"})
             balance == IF n < 2 THEN 0
                        ELSE IF 5 * vowels < n \/ 10 * vowels > 7 * n THEN -5
                        ELSE IF 10 * vowels < 3 * n \/ 10 * vowels > 6 * n THEN -2
                        ELSE 0
             duplicates == SumRange([k \in 1..26 |->
                                        IF count({ALPHABET[k]}) >= 2
                                        THEN (count({ALPHABET[k]}) - 1) * 3 ELSE 0], 1, 26)
             s_count == count({"S"})
         IN  balance - duplicates + count({"?"}) * 15
                 + (IF s_count < 2 THEN s_count ELSE 2) * 8
                 - count({"Q", "Z", "X", "J"}) * 5 - count({"V", "W", "K"}) * 2

\* _leave_value(leave_str, bag_empty)
leave_value(leave_str, bag_empty) ==
    IF leave_str = <<>>
    THEN 0
    ELSE IF ~bag_empty /\ sorted(leave_str) \in DOMAIN leaves_table
         THEN leaves_table[sorted(leave_str)]
         ELSE formula_leave(leave_str, bag_empty)

\* _compute_unseen(grid, my_rack, blanks_on_board)
compute_unseen(g, my_rack, bb) ==
    LET bb_1idx == {<<bb[k][1], bb[k][2]>> : k \in 1..Len(bb)}
        on_board(tile) ==
            Cardinality({p \in DOMAIN g :
                            IF <<p[1] + 1, p[2] + 1>> \in bb_1idx THEN tile = "?"
                                                                  ELSE tile = g[p]})
        in_rack(tile) == Cardinality({k \in 1..Len(my_rack) : my_rack[k] = tile})
        cnt(tile) == TILE_DISTRIBUTION[tile] - on_board(tile) - in_rack(tile)
    IN  Flatten([k \in 1..Len(DISTRIBUTION_KEYS) |->
                    [j \in 1..cnt(DISTRIBUTION_KEYS[k]) |-> DISTRIBUTION_KEYS[k]]])

\* _rank_by_equity: the triple (move, equity, leave value) of a move
equity_entry(move, lv) == [move |-> move, equity |-> move.score + lv, lv |-> lv]

\* _rank_by_equity: ranked.sort(key=lambda x: -x[1]), a stable sort by
\* falling equity
by_falling_equity(ranked) ==
    LET n == Len(ranked)
        place == Flatten([k \in 1..n |->
                     <<Cardinality({j \in 1..n :
                                       \/ ranked[j].equity > ranked[k].equity
                                       \/ (ranked[j].equity = ranked[k].equity /\ j < k)}) + 1>>])
    IN  Flatten([p \in 1..n |-> <<ranked[CHOOSE k \in 1..n : place[k] = p]>>])

\* _rank_by_equity(moves, bag_tiles)
rank_by_equity(ms, bag_tiles) ==
    by_falling_equity(
        Flatten([k \in 1..Len(ms) |->
                    <<equity_entry(ms[k], IF bag_tiles > 0
                                          THEN leave_value(ms[k].leave, bag_tiles <= RACK_SIZE)
                                          ELSE 0)>>]))

(***************************************************************************)
(* A recorded game: the dictionary is the words it formed, GamePlays the   *)
(* plays in order.  The positions given to DadBot.pick_move are taken from *)
(* it: a mid-game turn, a turn with three tiles in the bag and a turn with *)
(* the bag empty.                                                          *)
(***************************************************************************)
Play(word, row, col, horizontal, blanks_used) ==
    [word |-> word, row |-> row, col |-> col, horizontal |-> horizontal,
     blanks_used |-> blanks_used]

GameWords ==
    {<<"A", "H">>, <<"A", "M">>, <<"A", "T">>, <<"B", "I">>, <<"E", "F">>, <<"E", "T">>,
     <<"F", "E">>, <<"G", "I">>, <<"I", "D">>, <<"I", "S">>, <<"L", "I">>, <<"L", "O">>,
     <<"O", "D">>, <<"O", "N">>, <<"Q", "I">>, <<"S", "O">>, <<"T", "E">>, <<"U", "H">>,
     <<"X", "U">>, <<"Y", "O">>, <<"Z", "A">>, <<"A", "T", "E">>, <<"B", "E", "D">>,
     <<"B", "O", "A">>, <<"C", "O", "N">>, <<"D", "I", "E">>, <<"E", "M", "U">>,
     <<"G", "A", "Y">>, <<"H", "A", "M">>, <<"H", "I", "D">>, <<"L", "I", "D">>,
     <<"L", "O", "W">>, <<"O", "D", "E">>, <<"O", "N", "E">>, <<"S", "A", "T">>,
     <<"S", "P", "Y">>, <<"U", "S", "E">>, <<"B", "O", "L", "T">>, <<"C", "A", "G", "E">>,
     <<"C", "A", "K", "E">>, <<"C", "O", "N", "E">>, <<"E", "V", "E", "N">>,
     <<"E", "X", "I", "T">>, <<"F", "A", "I", "R">>, <<"F", "I", "R", "E">>,
     <<"G", "A", "T", "E">>, <<"G", "L", "O", "W">>, <<"H", "O", "R", "N">>,
     <<"J", "U", "D", "O">>, <<"O", "M", "I", "T">>, <<"R", "E", "E", "D">>,
     <<"R", "E", "I", "N">>, <<"R", "I", "L", "E">>, <<"U", "S", "E", "R">>,
     <<"V", "O", "L", "T">>, <<"W", "A", "R", "T">>, <<"Z", "E", "A", "L">>,
     <<"A", "T", "O", "N", "E">>, <<"E", "A", "R", "N", "S">>, <<"R", "O", "A", "S", "T">>}

GamePlays ==
    <<Play(<<"Z", "E", "A", "L">>, 8, 6, TRUE, <<>>),
      Play(<<"H", "O", "R", "N">>, 9, 8, TRUE, <<>>),
      Play(<<"O", "M", "I", "T">>, 8, 11, TRUE, <<>>),
      Play(<<"A", "T", "O", "N", "E">>, 4, 7, FALSE, <<>>),
      Play(<<"V", "O", "L", "T">>, 1, 8, FALSE, <<3>>),
      Play(<<"D", "I", "E">>, 2, 9, FALSE, <<>>),
      Play(<<"C", "A", "G", "E">>, 7, 11, TRUE, <<3>>),
      Play(<<"G", "A", "Y">>, 4, 6, FALSE, <<>>),
      Play(<<"L", "O", "W">>, 8, 9, FALSE, <<>>),
      Play(<<"E", "M", "U">>, 10, 11, TRUE, <<>>),
      Play(<<"H", "I", "D">>, 11, 13, TRUE, <<>>),
      Play(<<"B", "O", "A">>, 9, 4, TRUE, <<>>),
      Play(<<"R", "E", "I", "N">>, 10, 2, TRUE, <<>>),
      Play(<<"F", "A", "I", "R">>, 7, 2, FALSE, <<>>),
      Play(<<"E", "A", "R", "N", "S">>, 10, 3, FALSE, <<>>),
      Play(<<"F", "I", "R", "E">>, 4, 1, FALSE, <<>>),
      Play(<<"W", "A", "R", "T">>, 12, 1, TRUE, <<>>),
      Play(<<"R", "E", "E", "D">>, 2, 2, FALSE, <<>>),
      Play(<<"R", "O", "A", "S", "T">>, 2, 2, TRUE, <<>>),
      Play(<<"E", "X", "I", "T">>, 11, 5, TRUE, <<0>>),
      Play(<<"C", "A", "K", "E">>, 1, 4, FALSE, <<>>),
      Play(<<"J", "U", "D", "O">>, 9, 15, FALSE, <<>>),
      Play(<<"U", "S", "E">>, 12, 6, TRUE, <<>>),
      Play(<<"R", "I", "L", "E">>, 12, 9, FALSE, <<>>),
      Play(<<"E", "V", "E", "N">>, 15, 9, TRUE, <<>>),
      Play(<<"B", "E", "D">>, 1, 10, FALSE, <<>>),
      Play(<<"B", "O", "L", "T">>, 1, 10, TRUE, <<>>),
      Play(<<"G", "L", "O", "W">>, 7, 9, FALSE, <<>>),
      Play(<<"S", "P", "Y">>, 14, 3, TRUE, <<>>),
      Play(<<"Q", "I">>, 9, 1, TRUE, <<>>),
      Play(<<"S", "O">>, 12, 14, TRUE, <<>>),
      Play(<<"H", "A", "M">>, 6, 12, FALSE, <<>>),
      Play(<<"S", "A", "T">>, 5, 5, TRUE, <<>>)>>

GameData == build_from_gaddag(build_from_words(GameWords))

\* the letters the first n plays lay, each with its 0-indexed cell
GameTiles(n) ==
    UNION {{[cell |-> <<WordCell(GamePlays[k].row, GamePlays[k].col,
                                 GamePlays[k].horizontal, i)[1] - 1,
                        WordCell(GamePlays[k].row, GamePlays[k].col,
                                 GamePlays[k].horizontal, i)[2] - 1>>,
             letter |-> GamePlays[k].word[i]] : i \in 1..Len(GamePlays[k].word)} :
           k \in 1..n}

\* the grid after the first n plays.  play_game lays each with
\* Board.place_word, which sets the empty cells of the word and, in this
\* game, meets its own letter on every other: a cell holds the letter of the
\* plays that cover it.
GameGrid(n) ==
    LET tiles == GameTiles(n)
    IN  [p \in {t.cell : t \in tiles} |-> (CHOOSE t \in tiles : t.cell = p).letter]

\* play_game's blanks_on_board after the first n plays
GameBlanks(n) ==
    Flatten([k \in 1..n |->
                track_blanks(<<>>, GamePlays[k].word, GamePlays[k].row, GamePlays[k].col,
                             GamePlays[k].horizontal, GamePlays[k].blanks_used)])

\* play_game's turn on a grid: what it hands to get_legal_moves and pick_move,
\* and the rack of the player not to move
TurnOn(g, bb, rack, opp_rack, bag) ==
    [grid |-> g, rack |-> rack, blanks_on_board |-> bb,
     tiles_in_bag |-> bag, opp_rack |-> opp_rack,
     moves |-> Listed(get_legal_moves(g, GameData, GameWords, rack, bb))]

\* play_game's turn after the first n plays
Turn(n, rack, opp_rack, bag) == TurnOn(GameGrid(n), GameBlanks(n), rack, opp_rack, bag)

\* the turns taken from the game: the plays made before, the rack to move,
\* the other rack and the tiles in the bag
GameTurns ==
    <<[n |-> 8, rack |-> <<"N", "I", "R", "I", "R", "W", "H">>,
       opp_rack |-> <<"I", "X", "B", "E", "F", "U", "M">>, bag |-> 56],
      [n |-> 24, rack |-> <<"N", "P", "V", "S", "O", "E", "Y">>,
       opp_rack |-> <<"Q", "H", "D", "G", "P", "B", "E">>, bag |-> 3],
      [n |-> 32, rack |-> <<"S">>, opp_rack |-> <<"P">>, bag |-> 0]>>

Positions ==
    Flatten([k \in 1..Len(GameTurns) |->
                <<Turn(GameTurns[k].n, GameTurns[k].rack, GameTurns[k].opp_rack,
                       GameTurns[k].bag)>>])

(***************************************************************************)
(* bots/dadbot.py: DadBot.pick_move, the controller of the worker pool.    *)
(*                                                                         *)
(* Equities are floats; the model holds them as fractions in lowest terms, *)
(* and float('-inf') as NegInf.  The results the tasks return are whole or *)
(* half numbers, on which the float sums are exact, and a parity penalty   *)
(* never brings two unequal whole equities together, so the order of the   *)
(* fractions is the order of the floats.                                   *)
(***************************************************************************)
NegInf == [num |-> -1, den |-> 0]

whole(n) == [num |-> n, den |-> 1]

frac_add(a, b) == true_div(a.num * b.den + b.num * a.den, a.den * b.den)

frac_sub(a, b) == true_div(a.num * b.den - b.num * a.den, a.den * b.den)

\* a > b, where b may be NegInf
frac_gt(a, b) == a.num * b.den > b.num * a.den

\* TIERS, the entries pick_move reads
TIERS ==
    [tier \in {"blitz", "fast", "standard", "deep"} |->
        [N_CANDIDATES |-> CASE tier = "blitz" -> 10
                            [] tier = "fast" -> 15
                            [] tier = "standard" -> 30
                            [] tier = "deep" -> 40,
         EXCHANGE_EVAL |-> tier # "blitz",
         BLANK_3PLY |-> tier \in {"standard", "deep"}]]

EXCHANGE_EQUITY_THRESHOLD == 35

MC_POSITIONAL_DAMPEN == [num |-> 1, den |-> 2]

BLANK_3PLY_MIN_BLANKS == 2

BLANK_3PLY_MIN_BAG == 9

\* _PARITY_P_OPP_EMPTIES, in hundredths, for 1 to 7 tiles left in the bag
PARITY_P_OPP_EMPTIES == <<97, 94, 88, 78, 62, 40, 18>>

PARITY_STRUCTURAL_ADV == 10

NEAR_ENDGAME_CANDIDATES == 25

\* [(r - 1, c - 1) for r, c, _ in blanks_on_board]
bb_set_list_of(bb) == {<<bb[k][1] - 1, bb[k][2] - 1>> : k \in 1..Len(bb)}

\* lst[:n]
first_n(lst, n) == SubSeq(lst, 1, IF n < Len(lst) THEN n ELSE Len(lst))

\* the move_data dict built for a work item
move_data(move) ==
    [word |-> move.word, row |-> move.row, col |-> move.col, direction |-> move.direction,
     score |-> move.score, blanks_used |-> move.blanks_used, tiles_used |-> move.tiles_used]

\* _worker_eval_endgame(args): the Python branch
worker_eval_endgame(gdata, words, args) ==
    LET horizontal == args.move.direction = "H"
        placed == place_move(args.grid, args.move.word, args.move.row, args.move.col,
                             horizontal)
        move_bb == move_blanks(args.bb_set_list, args.move)
        opp_score == best_reply_score(placed.grid, gdata, words, move_bb, args.opp_rack)
    IN  [word |-> args.move.word, row |-> args.move.row, col |-> args.move.col,
         direction |-> args.move.direction, score |-> args.move.score,
         equity |-> args.move.score - opp_score]

\* _blank_3ply_check returns best_move unchanged: its first two tests
blank_3ply_unchanged(rack, bag_size) ==
    \/ Cardinality({k \in 1..Len(rack) : rack[k] = "?"}) < BLANK_3PLY_MIN_BLANKS
    \/ bag_size <= BLANK_3PLY_MIN_BAG

\* pick_move, mid-game, from the ranking down to the fan-out: the candidates,
\* their positional adjustments, whether an exchange stands by, and the work
\* items
mid_game_fan(ranked, candidates, pos, cfg, adj, exch, res) ==
    [path |-> "mid",
     cands |-> candidates,
     pos_adjs |-> [k \in 1..Len(candidates) |-> adj[k]],
     exchange_move |-> /\ cfg.EXCHANGE_EVAL
                       /\ (IF ranked # <<>> THEN ranked[1].equity ELSE 0)
                              < EXCHANGE_EQUITY_THRESHOLD
                       /\ pos.tiles_in_bag >= RACK_SIZE
                       /\ exch,
     results |-> <<>>,
     work |-> [k \in 1..Len(candidates) |->
                  [move |-> move_data(candidates[k].move), result |-> res[k]]]]

\* pick_move, mid-game, from the ranking on: candidates = ranked[:N_CANDIDATES]
mid_game_ranked(ranked, pos, cfg, adj, exch, res) ==
    mid_game_fan(ranked, first_n(ranked, cfg.N_CANDIDATES), pos, cfg, adj, exch, res)

\* pick_move, mid-game, down to the fan-out.  adj[k] is what
\* _compute_positional_adj gives for candidate k, exch whether
\* _generate_exchange_candidates finds an exchange above the best 1-ply
\* equity, and res[k] what task k returns if it runs to its end.
mid_game_plan(pos, cfg, adj, exch, res) ==
    mid_game_ranked(rank_by_equity(pos.moves, pos.tiles_in_bag), pos, cfg, adj, exch, res)

\* the parity penalty of a move that leaves bag_after tiles in the bag
parity_penalty(bag_after) ==
    IF 1 <= bag_after /\ bag_after <= 7
    THEN true_div(-(PARITY_P_OPP_EMPTIES[bag_after] * PARITY_STRUCTURAL_ADV), 100)
    ELSE whole(0)

\* _evaluate_near_endgame from the candidates down to the fan-out: pass 1 and
\* the work items of pass 2
near_endgame_fan(candidates, bag_size, res) ==
    LET n_used(c) == Len(c.move.tiles_used)
        exhaust_cands == SelectSeq(candidates, LAMBDA c : n_used(c) >= bag_size)
        others == SelectSeq(candidates, LAMBDA c : n_used(c) < bag_size)
    IN  [path |-> "near",
         cands |-> exhaust_cands,
         pos_adjs |-> <<>>,
         exchange_move |-> FALSE,
         results |-> [k \in 1..Len(others) |->
                         [move |-> others[k].move,
                          equity |-> frac_add(whole(others[k].equity),
                                              parity_penalty(bag_size - n_used(others[k])))]],
         work |-> [k \in 1..Len(exhaust_cands) |->
                      [move |-> move_data(exhaust_cands[k].move), result |-> res[k]]]]

\* _evaluate_near_endgame from the bag size on
near_endgame_ranked(ms, bag_size, res) ==
    near_endgame_fan(first_n(rank_by_equity(ms, bag_size), NEAR_ENDGAME_CANDIDATES),
                     bag_size, res)

\* max(0, unseen_count - RACK_SIZE)
bag_size_of(unseen_count) == IF unseen_count - RACK_SIZE > 0 THEN unseen_count - RACK_SIZE ELSE 0

\* _evaluate_near_endgame down to the fan-out.  res[k] is what task k
\* returns if it runs to its end.
near_endgame_plan(pos, res) ==
    near_endgame_ranked(pos.moves,
                        bag_size_of(Len(compute_unseen(pos.grid, pos.rack,
                                                       pos.blanks_on_board))),
                        res)

\* _endgame_pick down to the fan-out: one work item for every legal move
endgame_plan(pos, gdata, words) ==
    LET unseen == compute_unseen(pos.grid, pos.rack, pos.blanks_on_board)
        bb_set_list == bb_set_list_of(pos.blanks_on_board)
    IN  [path |-> "end",
         cands |-> [k \in 1..Len(pos.moves) |->
                       [move |-> pos.moves[k], equity |-> pos.moves[k].score, lv |-> 0]],
         pos_adjs |-> <<>>,
         exchange_move |-> FALSE,
         results |-> <<>>,
         work |-> [k \in 1..Len(pos.moves) |->
                      [move |-> move_data(pos.moves[k]),
                       result |-> worker_eval_endgame(gdata, words,
                                      [grid |-> pos.grid, bb_set_list |-> bb_set_list,
                                       move |-> move_data(pos.moves[k]),
                                       opp_rack |-> unseen])]]]

\* pick_move's choice of path by tiles_in_bag
pick_plan(pos, cfg, gdata, words, adj, exch, res) ==
    IF pos.tiles_in_bag = 0
    THEN endgame_plan(pos, gdata, words)
    ELSE IF 1 <= pos.tiles_in_bag /\ pos.tiles_in_bag <= 8
         THEN near_endgame_plan(pos, res)
         ELSE mid_game_plan(pos, cfg, adj, exch, res)

\* future.result() of the i-th future of the list futures: what the task
\* submitted i-th returned
future_result_by_arrival(work, order, i) ==
    IF i <= Len(order) THEN work[order[i]].result ELSE work[i].result

future_result(work, order, i) == work[i].result

\* the mid-game total of a candidate whose task returned result
mid_game_total(cand, result, pos_adj, bag_tiles) ==
    LET mc_equity == frac_sub(whole(cand.move.score), result.avg_opp)
        lv == IF bag_tiles > 0 THEN leave_value(cand.move.leave, bag_tiles <= RACK_SIZE)
                               ELSE 0
    IN  frac_add(frac_add(mc_equity, whole(lv)),
                 true_div(pos_adj * MC_POSITIONAL_DAMPEN.num, MC_POSITIONAL_DAMPEN.den))

\* results.sort(key=lambda x: -x[1]); results[0][0]
best_of_results(results) ==
    LET k == CHOOSE k \in 1..Len(results) :
                 /\ \A j \in 1..Len(results) : ~frac_gt(results[j].equity, results[k].equity)
                 /\ \A j \in 1..(k - 1) : frac_gt(results[k].equity, results[j].equity)
    IN  results[k].move
(***************************************************************************)
(* Specification SpecPick: one DadBot.pick_move call on a position of the  *)
(* recorded game, and the worker pool's tasks.  The call is a step down to *)
(* the fan-out, a step for each pass of its collect loop and a step for    *)
(* its return; a submitted task returns or raises at any time, and a       *)
(* future.result(timeout) on a task still pending may time out.  In the    *)
(* two budgeted loops time may run out between any two passes, and has run *)
(* out once a wait timed out.  A move is held as <<move>> and None as <<>>.*)
(***************************************************************************)
\* avg_opp of a _worker_eval_candidate result
McResults == {[avg_opp |-> whole(2)], [avg_opp |-> whole(5)]}

\* avg_equity of a _worker_eval_near_endgame result
NearResults == {[avg_equity |-> whole(8)], [avg_equity |-> true_div(51, 2)]}

\* what _compute_positional_adj returns
PosAdjs == {0, 3}

\* the inputs that a call on position pos with the tier's entries cfg reads,
\* one for each of the tasks it submits
PickInputs(pos, cfg) ==
    LET any == [k \in 1..Len(pos.moves) |-> 0]
    IN  IF pos.tiles_in_bag = 0
        THEN {[adj |-> <<>>, exch |-> FALSE, res |-> <<>>]}
        ELSE IF pos.tiles_in_bag <= 8
             THEN [adj : {<<>>}, exch : {FALSE},
                   res : [DOMAIN near_endgame_plan(pos, any).work -> NearResults]]
             ELSE [adj : [DOMAIN mid_game_plan(pos, cfg, any, FALSE, any).work -> PosAdjs],
                   exch : BOOLEAN,
                   res : [DOMAIN mid_game_plan(pos, cfg, any, FALSE, any).work -> McResults]]

PickInit == EngineStart /\ OuterStart

\* pick_move from the fan-out of plan on: _get_pool() makes the pool (made)
\* or ProcessPoolExecutor raises, and every work item is submitted
FanOut(p, pos, tier, made, plan) ==
    /\ p_call' = [active |-> TRUE, pos |-> p, tier |-> tier, path |-> plan.path,
                  bag_tiles |-> pos.tiles_in_bag, moves_0 |-> <<pos.moves[1]>>,
                  cands |-> plan.cands, pos_adjs |-> plan.pos_adjs,
                  exchange_move |-> plan.exchange_move, work |-> plan.work,
                  pool_made |-> plan.work = <<>> \/ _pool # None \/ made]
    /\ _pool' = IF plan.work # <<>> /\ _pool = None /\ made THEN "ProcessPoolExecutor"
                                                            ELSE _pool
    /\ p_futures' = IF plan.work # <<>> /\ (_pool # None \/ made)
                    THEN [k \in 1..Len(plan.work) |-> "pending"]
                    ELSE <<>>
    /\ p_ctl' = [NoCtl EXCEPT !.i = 1, !.results = plan.results]
    /\ p_out' = IF plan.work # <<>> /\ _pool = None /\ ~made
                THEN [returned |-> TRUE, raised |-> TRUE, move |-> <<>>]
                ELSE NoOutcome

\* pick_move on position p, pos, down to pool.submit
PickMove(p, pos, tier, made, inp) ==
    /\ ~p_call.active
    /\ pos.moves # <<>>
    /\ TIERS[tier].BLANK_3PLY /\ pos.tiles_in_bag > 8
           => blank_3ply_unchanged(pos.rack, pos.tiles_in_bag)
    /\ FanOut(p, pos, tier, made,
              pick_plan(pos, TIERS[tier], GameData, GameWords, inp.adj, inp.exch, inp.res))
    /\ p_order' = <<>>
    /\ UNCHANGED pick_rest

\* a pick_move call on one of the positions
PickOn(positions) ==
    \E p \in 1..Len(positions), tier \in DOMAIN TIERS, made \in BOOLEAN :
        \E inp \in PickInputs(positions[p], TIERS[tier]) :
            PickMove(p, positions[p], tier, made, inp)

\* a worker finishes task k and its future holds the result
TaskReturns(k) ==
    /\ k \in DOMAIN p_futures
    /\ p_futures[k] = "pending"
    /\ p_futures' = [p_futures EXCEPT ![k] = "done"]
    /\ p_order' = Append(p_order, k)
    /\ UNCHANGED <<_pool, p_call, p_ctl, p_out, pick_rest>>

\* task k raises, or its worker dies: its future holds the exception
TaskRaises(k) ==
    /\ k \in DOMAIN p_futures
    /\ p_futures[k] = "pending"
    /\ p_futures' = [p_futures EXCEPT ![k] = "raised"]
    /\ p_order' = Append(p_order, k)
    /\ UNCHANGED <<_pool, p_call, p_ctl, p_out, pick_rest>>

\* the collect loop is at future p_ctl.i
Collecting == p_call.active /\ ~p_out.returned /\ p_ctl.i <= Len(p_futures)

\* _evaluate_near_endgame and _endgame_pick run against a time budget
Budgeted == p_call.path \in {"near", "end"}

\* the budget of the loop runs out
TimePasses ==
    /\ Collecting
    /\ Budgeted
    /\ ~p_ctl.late
    /\ p_ctl' = [p_ctl EXCEPT !.late = TRUE]
    /\ UNCHANGED <<_pool, p_call, p_futures, p_order, p_out, pick_rest>>

\* result['equity'] > best_equity, total > best_total
improves_or_ties(equity, best) == ~frac_gt(best, equity)

improves(equity, best) == frac_gt(equity, best)

\* one pass of the loop in which future.result returns the task's result
CollectResult ==
    /\ Collecting
    /\ ~(Budgeted /\ p_ctl.late)
    /\ p_futures[p_ctl.i] = "done"
    /\ LET i == p_ctl.i
           result == future_result(p_call.work, p_order, i)
           cand == p_call.cands[i]
           equity == CASE p_call.path = "mid" ->
                              mid_game_total(cand, result, p_call.pos_adjs[i],
                                             p_call.bag_tiles)
                       [] p_call.path = "near" -> result.avg_equity
                       [] p_call.path = "end" -> whole(result.equity)
           better == p_call.path # "near" /\ improves(equity, p_ctl.best)
       IN  p_ctl' = [p_ctl EXCEPT
                        !.i = i + 1,
                        !.best_move = IF better THEN <<cand.move>> ELSE @,
                        !.best = IF better THEN equity ELSE @,
                        !.results = IF p_call.path = "near"
                                    THEN Append(@, [move |-> cand.move, equity |-> equity])
                                    ELSE @,
                        !.seen = Append(@, [how |-> "result", equity |-> equity])]
    /\ UNCHANGED <<_pool, p_call, p_futures, p_order, p_out, pick_rest>>

\* one pass of the loop in which future.result raises: the task's exception
\* (how = "raised") or TimeoutError (how = "timeout")
CollectException(how) ==
    /\ Collecting
    /\ ~(Budgeted /\ p_ctl.late)
    /\ LET i == p_ctl.i
           cand == p_call.cands[i]
           late == p_ctl.late \/ how = "timeout"
       IN  CASE p_call.path = "mid" ->
                    /\ p_out' = [returned |-> TRUE, raised |-> TRUE, move |-> <<>>]
                    /\ p_ctl' = [p_ctl EXCEPT !.seen = Append(@, [how |-> how, equity |-> NegInf])]
             [] p_call.path = "near" ->
                    /\ p_ctl' = [p_ctl EXCEPT
                                    !.i = i + 1,
                                    !.late = late,
                                    !.results = Append(@, [move |-> cand.move,
                                                           equity |-> whole(cand.equity)]),
                                    !.seen = Append(@, [how |-> how,
                                                        equity |-> whole(cand.equity)])]
                    /\ UNCHANGED p_out
             [] p_call.path = "end" ->
                    /\ p_ctl' = [p_ctl EXCEPT
                                    !.i = i + 1,
                                    !.late = late,
                                    !.seen = Append(@, [how |-> how, equity |-> NegInf])]
                    /\ UNCHANGED p_out
    /\ UNCHANGED <<_pool, p_call, p_futures, p_order, pick_rest>>

ResultRaises ==
    /\ Collecting
    /\ p_futures[p_ctl.i] = "raised"
    /\ CollectException("raised")

ResultTimesOut ==
    /\ Collecting
    /\ p_futures[p_ctl.i] = "pending"
    /\ CollectException("timeout")

\* one pass of a budgeted loop that finds remaining <= 0: the near-endgame
\* loop takes the 1-ply equity and goes on, the endgame loop breaks
OutOfTime ==
    /\ Collecting
    /\ Budgeted
    /\ p_ctl.late
    /\ LET i == p_ctl.i
           cand == p_call.cands[i]
           n == Len(p_futures)
       IN  p_ctl' = IF p_call.path = "near"
                    THEN [p_ctl EXCEPT
                             !.i = i + 1,
                             !.results = Append(@, [move |-> cand.move,
                                                    equity |-> whole(cand.equity)]),
                             !.seen = Append(@, [how |-> "late",
                                                 equity |-> whole(cand.equity)])]
                    ELSE [p_ctl EXCEPT
                             !.i = n + 1,
                             !.seen = @ \o [k \in 1..(n + 1 - i) |->
                                               [how |-> "late", equity |-> NegInf]]]
    /\ UNCHANGED <<_pool, p_call, p_futures, p_order, p_out, pick_rest>>

\* the loop is over and the call returns
Return ==
    /\ p_call.active
    /\ ~p_out.returned
    /\ p_ctl.i > Len(p_futures)
    /\ LET moves_0 == p_call.moves_0
           chosen == CASE p_call.path = "mid" ->
                              IF p_call.exchange_move /\ frac_gt(whole(0), p_ctl.best)
                              THEN <<>>
                              ELSE p_ctl.best_move
                       [] p_call.path = "near" ->
                              IF p_ctl.results = <<>>
                              THEN moves_0
                              ELSE <<best_of_results(p_ctl.results)>>
                       [] p_call.path = "end" ->
                              IF p_ctl.best_move = <<>> THEN moves_0 ELSE p_ctl.best_move
       IN  p_out' = [returned |-> TRUE, raised |-> FALSE, move |-> chosen]
    /\ UNCHANGED <<_pool, p_call, p_futures, p_order, p_ctl, pick_rest>>

PickNext ==
    \/ PickOn(Positions)
    \/ \E k \in 1..Len(p_futures) : TaskReturns(k)
    \/ \E k \in 1..Len(p_futures) : TaskRaises(k)
    \/ TimePasses
    \/ CollectResult
    \/ ResultRaises
    \/ ResultTimesOut
    \/ OutOfTime
    \/ Return

SpecPick == PickInit /\ [][PickNext]_vars

(***************************************************************************)
(* play_match.py: play_game, with the pick_move of the engines it asks.    *)
(*                                                                         *)
(* A turn is the body of play_game's loop.  It runs to the pick_move call  *)
(* (AskEngine), the engine runs and returns (BotPlaces, BotUndoes,         *)
(* EngineReturns), and the turn runs on to its end (TurnEnds).  An engine  *)
(* is a BaseEngine that returns None or one of the moves offered, or one   *)
(* of MyBot, BotFastSim and BotEndgameExpert, which search by laying       *)
(* candidates on the Board they are handed and taking them off again.      *)
(* Between place_move and undo_move a search only reads the board          *)
(* (get_legal_moves for the opponent racks it samples), and which of the   *)
(* moves its static evaluation puts forward is left open: any of the moves *)
(* it selects from may be searched, each once, in any order.               *)
(*                                                                         *)
(* The games are taken up from turns of the recorded game, with the racks, *)
(* the bag and the scores play_game held there.  MaxOffer bounds the       *)
(* moves, best first, an engine searches and picks from.  A game is        *)
(* followed for MaxTurns turns, and to its end once the bag holds no more  *)
(* than a rack, as long as no more than MaxPasses passes follow each       *)
(* other.                                                                  *)
(***************************************************************************)
MaxOffer == 2
MaxTurns == 2
MaxPasses == 4

\* make_bag(): the bag as random.shuffle left it in the recorded game
ShuffledBag ==
    <<"T", "L", "S", "E", "B", "P", "G", "Y", "E", "O", "I", "E", "D", "S", "S", "V", "O", "R", "L", "U",
      "P", "N", "E", "E", "?", "H", "J", "I", "S", "O", "A", "E", "R", "T", "E", "T", "W", "A", "T", "F",
      "R", "E", "S", "A", "U", "N", "D", "A", "Q", "C", "K", "E", "I", "A", "O", "D", "M", "U", "F", "H",
      "W", "R", "I", "E", "A", "B", "?", "R", "I", "A", "Y", "X", "E", "I", "C", "L", "N", "O", "A", "D",
      "I", "O", "M", "T", "G", "I", "H", "T", "N", "O", "N", "R", "G", "E", "?", "L", "Z", "V", "A", "O">>

\* Mutant of draw_tiles: the tiles drawn stay in the bag.
draw_tiles_peeked(bag, rack, count) ==
    LET want == count - Len(rack)
        n == IF want <= 0 THEN 0 ELSE IF want < Len(bag) THEN want ELSE Len(bag)
    IN  [drawn |-> [i \in 1..n |-> bag[Len(bag) - i + 1]], bag |-> bag]

\* draw_tiles(bag, rack, count): the tiles drawn, popped from the end of the
\* bag, and the bag left
draw_tiles(bag, rack, count) ==
    LET want == count - Len(rack)
        n == IF want <= 0 THEN 0 ELSE IF want < Len(bag) THEN want ELSE Len(bag)
    IN  [drawn |-> [i \in 1..n |-> bag[Len(bag) - i + 1]],
         bag |-> SubSeq(bag, 1, Len(bag) - n)]

\* play_game: "Remove used tiles from rack", from the i-th tile used on
RECURSIVE remove_used(_, _, _)
remove_used(new_rack, tiles_used, i) ==
    IF i > Len(tiles_used)
    THEN new_rack
    ELSE remove_used(IF tiles_used[i] \in Range(new_rack)
                     THEN list_remove(new_rack, tiles_used[i])
                     ELSE IF "?" \in Range(new_rack)
                          THEN list_remove(new_rack, "?")
                          ELSE new_rack,
                     tiles_used, i + 1)

\* Mutant of countdown_over: the game goes on until the count is below 0.
countdown_over_late(final_turns_left) ==
    final_turns_left # <<>> /\ final_turns_left[1] < 0

\* play_game: "Check game over conditions", with <<>> for None and <<n>> for
\* the count n
countdown_over(final_turns_left) ==
    final_turns_left # <<>> /\ final_turns_left[1] <= 0

\* Mutant of passes_end_game: passes never end the game.
passes_never_end_game(consecutive_passes) == FALSE

\* play_game: if consecutive_passes >= 4
passes_end_game(consecutive_passes) == consecutive_passes >= 4

\* unseen_tiles(board, rack, game_info) of the three bots, as the list of
\* the tiles it counts
unseen_tiles(g, rack, bb) ==
    LET bb_set == {<<bb[k][1], bb[k][2]>> : k \in 1..Len(bb)}
        on_board(tile) ==
            Cardinality({p \in DOMAIN g :
                            IF <<p[1] + 1, p[2] + 1>> \in bb_set THEN tile = "?"
                                                                 ELSE tile = g[p]})
        in_rack(tile) == Cardinality({k \in 1..Len(rack) : rack[k] = tile})
        remaining(tile) == TILE_DISTRIBUTION[tile] - on_board(tile) - in_rack(tile)
    IN  Flatten([k \in 1..Len(DISTRIBUTION_KEYS) |->
                    [j \in 1..remaining(DISTRIBUTION_KEYS[k]) |-> DISTRIBUTION_KEYS[k]]])

\* the three bots that search on the runner's board
SearchingBots == {"MyBot", "BotFastSim", "BotEndgameExpert"}

\* N_CANDIDATES of my_bot.py and of bot_fast_sim.py
N_CANDIDATES == 5

\* pick_move of the three bots: whether the call runs its search, given
\* the moves offered, tiles_in_bag and the unseen tiles.  MyBot searches
\* when the bag is not empty and at least 7 tiles are unseen, BotFastSim
\* when the bag holds 15 tiles or more, BotEndgameExpert when the bag is
\* empty and the opponent holds a tile.
searches(engine, offered, tiles_in_bag, unseen) ==
    /\ offered # <<>>
    /\ CASE engine = "MyBot" -> tiles_in_bag # 0 /\ Len(unseen) >= 7
         [] engine = "BotFastSim" -> tiles_in_bag # 0 /\ ~(tiles_in_bag < 15)
         [] engine = "BotEndgameExpert" -> tiles_in_bag = 0 /\ unseen # <<>>
         [] OTHER -> FALSE

\* the moves a search takes its candidates from: moves[:25] for MyBot,
\* moves[:20] for BotFastSim, moves[:12] for _endgame_minimax
search_pool(engine, offered) ==
    LET n == CASE engine = "MyBot" -> 25
               [] engine = "BotFastSim" -> 20
               [] OTHER -> 12
    IN  1..(IF Len(offered) < n THEN Len(offered) ELSE n)

\* the most candidates one call searches
search_limit(engine) == IF engine = "BotEndgameExpert" THEN 12 ELSE N_CANDIDATES

\* the turns of the recorded game the games are taken up from: the plays
\* made before, the player to move, the racks, the tiles left in the bag and
\* the scores, with the engines that play on
GameStarts ==
    {[n |-> 24, player_idx |-> 0, tiles_in_bag |-> 3, scores |-> <<231, 245>>,
      racks |-> <<<<"N", "P", "V", "S", "O", "E", "Y">>,
                  <<"Q", "H", "D", "G", "P", "B", "E">>>>,
      engines |-> <<"MyBot", "BotEndgameExpert">>],
     [n |-> 24, player_idx |-> 0, tiles_in_bag |-> 3, scores |-> <<231, 245>>,
      racks |-> <<<<"N", "P", "V", "S", "O", "E", "Y">>,
                  <<"Q", "H", "D", "G", "P", "B", "E">>>>,
      engines |-> <<"BaseEngine", "BaseEngine">>],
     [n |-> 19, player_idx |-> 1, tiles_in_bag |-> 20, scores |-> <<171, 158>>,
      racks |-> <<<<"K", "C", "U", "E", "E", "N", "P">>,
                  <<"X", "Q", "T", "I", "J", "H", "?">>>>,
      engines |-> <<"MyBot", "BotFastSim">>]}

\* play_game's locals at a turn it is taken up from.  emptied_by and asked
\* are history: the player whose play emptied the bag, and the players
\* asked for a move since.
GameAt(s) ==
    [pc |-> "top", engines |-> s.engines, racks |-> s.racks, scores |-> s.scores,
     bag |-> SubSeq(ShuffledBag, 1, s.tiles_in_bag), player_idx |-> s.player_idx,
     move_number |-> s.n, taken_up |-> s.n, consecutive_passes |-> 0,
     final_turns_left |-> <<>>, emptied_by |-> <<>>, asked |-> <<>>]

GameInit ==
    /\ \E s \in GameStarts :
          /\ grid = GameGrid(s.n)
          /\ blanks_on_board = GameBlanks(s.n)
          /\ game = GameAt(s)
    /\ bot = NoSearch
    /\ undo_stack = <<>>
    /\ grid_stack = <<>>
    /\ last_call = NoCall
    /\ calls = 0
    /\ scored = NoScore
    /\ plays = 0
    /\ GaddagStart
    /\ MoveStart
    /\ LoadStart
    /\ WorkerStart
    /\ PickStart
    /\ NearStart

game_rest == <<undo_stack, grid_stack, last_call, calls, gaddag_vars, scored, plays, cur_rack, best_found, load_vars, worker_vars, pick_vars, near_vars>>

\* the game is at the top of a turn the model follows
TurnFollowed ==
    /\ game.pc = "top"
    /\ game.move_number - game.taken_up < MaxTurns \/ Len(game.bag) <= RACK_SIZE
    /\ game.consecutive_passes <= MaxPasses

\* play_game's loop body up to engine.pick_move: the game-over check, the
\* countdown, get_legal_moves, and the call
AskEngine ==
    /\ TurnFollowed
    /\ IF countdown_over(game.final_turns_left)
       THEN /\ game' = [game EXCEPT !.pc = "over", !.move_number = @ + 1]
            /\ UNCHANGED <<moves, bot>>
       ELSE /\ game' = [game EXCEPT
                           !.pc = "pick",
                           !.move_number = @ + 1,
                           !.final_turns_left = IF @ = <<>> THEN <<>> ELSE <<@[1] - 1>>,
                           !.asked = IF game.emptied_by = <<>>
                                     THEN @ ELSE Append(@, game.player_idx)]
            /\ moves' = get_legal_moves(grid, GameData, GameWords,
                                        game.racks[game.player_idx + 1], blanks_on_board)
            /\ bot' = [active |-> TRUE, engine |-> game.engines[game.player_idx + 1],
                       at_call |-> grid, pending |-> FALSE, placed |-> <<>>, cand |-> 0,
                       searched |-> {}, returned |-> FALSE, chosen |-> <<>>]
    /\ UNCHANGED <<grid, blanks_on_board, game_rest>>

\* simulate_move, _simulate and the body of _endgame_minimax's loop, up to
\* board.place_move for the k-th move offered
BotPlaces(k) ==
    /\ game.pc = "pick"
    /\ ~bot.pending
    /\ searches(bot.engine, moves, Len(game.bag),
                unseen_tiles(grid, game.racks[game.player_idx + 1], blanks_on_board))
    /\ k \in search_pool(bot.engine, moves) \ bot.searched
    /\ Cardinality(bot.searched) < search_limit(bot.engine)
    /\ LET res == place_move(grid, moves[k].word, moves[k].row, moves[k].col,
                             moves[k].direction = "H")
       IN  /\ grid' = res.grid
           /\ bot' = [bot EXCEPT !.pending = TRUE, !.placed = res.ret, !.cand = k]
    /\ UNCHANGED <<game, moves, blanks_on_board, game_rest>>

\* the same, from board.undo_move(placed) on
BotUndoes ==
    /\ game.pc = "pick"
    /\ bot.pending
    /\ grid' = undo_move(grid, bot.placed)
    /\ bot' = [bot EXCEPT !.pending = FALSE, !.placed = <<>>, !.cand = 0,
                          !.searched = @ \cup {bot.cand}]
    /\ UNCHANGED <<game, moves, blanks_on_board, game_rest>>

\* pick_move returns None (c = 0) or the c-th move offered.  Each of the
\* three bots returns None only when no move is offered, and after a search
\* one of the candidates searched.
EngineReturns(c) ==
    /\ game.pc = "pick"
    /\ ~bot.pending
    /\ c <= Len(moves)
    /\ c = 0 => moves = <<>> \/ bot.engine \notin SearchingBots
    /\ searches(bot.engine, moves, Len(game.bag),
                unseen_tiles(grid, game.racks[game.player_idx + 1], blanks_on_board))
          => c \in bot.searched
    /\ game' = [game EXCEPT !.pc = "chosen"]
    /\ bot' = [bot EXCEPT !.returned = TRUE,
                          !.chosen = IF c = 0 THEN <<>> ELSE <<moves[c]>>]
    /\ UNCHANGED <<grid, moves, blanks_on_board, game_rest>>

\* play_game's loop body after pick_move returned: a pass, or the play laid
\* with Board.place_word, the score, the blanks, the rack, the draw and the
\* start of the countdown
TurnEnds ==
    /\ game.pc = "chosen"
    /\ LET player_idx == game.player_idx
           rack == game.racks[player_idx + 1]
       IN  IF bot.chosen = <<>> \/ moves = <<>>
           THEN /\ game' = [game EXCEPT
                               !.consecutive_passes = @ + 1,
                               !.pc = IF passes_end_game(game.consecutive_passes + 1)
                                      THEN "over" ELSE "top",
                               !.player_idx = IF passes_end_game(game.consecutive_passes + 1)
                                              THEN @ ELSE 1 - @]
                /\ UNCHANGED <<grid, blanks_on_board>>
           ELSE LET chosen == bot.chosen[1]
                    horizontal == chosen.direction = "H"
                    new_rack == remove_used(rack, chosen.tiles_used, 1)
                    draw == draw_tiles(game.bag, new_rack, RACK_SIZE)
                    emptied == Len(draw.bag) = 0 /\ game.final_turns_left = <<>>
                IN  /\ grid' = place_word(grid, chosen.word, chosen.row, chosen.col,
                                          horizontal).grid
                    /\ blanks_on_board' = track_blanks(blanks_on_board, chosen.word,
                                                       chosen.row, chosen.col, horizontal,
                                                       chosen.blanks_used)
                    /\ game' = [game EXCEPT
                                   !.pc = "top",
                                   !.consecutive_passes = 0,
                                   !.scores[player_idx + 1] = @ + chosen.score,
                                   !.racks[player_idx + 1] = new_rack \o draw.drawn,
                                   !.bag = draw.bag,
                                   !.final_turns_left = IF emptied THEN <<2>> ELSE @,
                                   !.emptied_by = IF emptied THEN <<player_idx>> ELSE @,
                                   !.player_idx = 1 - @]
    /\ bot' = NoSearch
    /\ moves' = <<>>
    /\ UNCHANGED game_rest

GameNext ==
    \/ AskEngine
    \/ \E k \in 1..MaxOffer : BotPlaces(k)
    \/ BotUndoes
    \/ \E c \in 0..MaxOffer : EngineReturns(c)
    \/ TurnEnds

SpecGame == GameInit /\ [][GameNext]_vars

\* the games taken up with no more than a rack in the bag, which are
\* followed to their end
EndgameInit == GameInit /\ Len(game.bag) <= RACK_SIZE

\* a step of the game is possible: play_game is at the top of a turn that
\* is followed, an engine is in its pick_move (it can lay a candidate, take
\* one off, or return), or play_game has the engine's answer
GameRuns == TurnFollowed \/ game.pc \in {"pick", "chosen"}

\* WF_vars(GameNext): play_game and the engines it calls run on.  Written
\* out, WF_vars(GameNext) is
\*     []<>~(ENABLED <<GameNext>>_vars) \/ []<><<GameNext>>_vars
\* where a step of GameNext is possible exactly in the states of GameRuns
\* and, under [][GameNext]_vars, the steps that change vars are the steps
\* of GameNext.
GameFair == []<>~GameRuns \/ []<><<TRUE>>_vars

\* Specification SpecGameFair: those games, with a play_game that runs on
\* and engines whose search goes on to its end and whose pick_move returns
SpecGameFair == EndgameInit /\ [][GameNext]_vars /\ GameFair

(***************************************************************************)
(* bots/dadbot.py: _worker_eval_near_endgame, the exhaustive 3-ply search  *)
(* a worker makes for one bag-emptying candidate.  The accelerator is not  *)
(* part of the repository, so the worker takes its Python branch.          *)
(***************************************************************************)

\* itertools.combinations(range(lo, n), r): the ascending index tuples, in
\* lexicographic order
RECURSIVE combinations_from(_, _, _)
combinations_from(lo, n, r) ==
    IF r = 0
    THEN << <<>> >>
    ELSE Flatten([i \in 1..(n - r - lo + 1) |->
                     LET rest == combinations_from(lo + i, n, r - 1)
                     IN  [j \in 1..Len(rest) |-> <<lo + i - 1>> \o rest[j]]])

combinations(n, r) == combinations_from(0, n, r)

\* ''.join(unseen_str_list[i] for i in combo_indices)
opp_rack_of(unseen_pool, combo_indices) ==
    [j \in 1..Len(combo_indices) |-> unseen_pool[combo_indices[j] + 1]]

\* ''.join(unseen_str_list[i] for i in drawn_indices): the set difference of
\* small integers is iterated over in ascending order
drawn_tiles_of(unseen_pool, combo_indices) ==
    Flatten([i \in 1..Len(unseen_pool) |->
                IF i - 1 \in Range(combo_indices) THEN <<>> ELSE <<unseen_pool[i]>>])

\* min(RACK_SIZE, unseen_count)
opp_rack_size(unseen_pool) ==
    IF RACK_SIZE < Len(unseen_pool) THEN RACK_SIZE ELSE Len(unseen_pool)

\* "Compute our leave": the rack without the tiles the candidate uses
your_leave_of(rack, move) == remove_used(rack, move.tiles_used, 1)

\* sum(net_scores) / len(net_scores) if net_scores else float(move['score'])
mean_net(net_scores, score) ==
    IF net_scores # <<>>
    THEN true_div(SumRange(net_scores, 1, Len(net_scores)), Len(net_scores))
    ELSE true_div(score, 1)

(***************************************************************************)
(* Specification SpecNearEnd: one worker process, given one                *)
(* _worker_eval_near_endgame task after another.  A task is a step for its *)
(* start (the board with the candidate laid, the leave), two steps for     *)
(* each opponent rack (the opponent's best reply, then our follow-up) and  *)
(* a step for its return.  The candidates are the best MaxCandidates       *)
(* opening moves of a rack; the pool holds eight tiles, so one tile is in  *)
(* the bag and every candidate empties it.                                 *)
(***************************************************************************)

MaxCandidates == 2

NearRacks == {<<"C", "A", "T", "T", "S">>, <<"C", "A", "T", "S">>}

NearPools == {<<"?", "V", "V", "Q", "J", "K", "X", "Z">>,
              <<"S", "Z", "V", "V", "Q", "J", "K", "X">>}

\* the first n of the moves ms, or all of them
best_of(ms, n) == {ms[k] : k \in 1..(IF Len(ms) < n THEN Len(ms) ELSE n)}

NearCandidates(rack) ==
    best_of(get_legal_moves(EmptyGrid, MoveData, MoveWords, rack, <<>>), MaxCandidates)

NearArgs ==
    UNION {[grid : {EmptyGrid}, bb_set_list : {{}}, move : NearCandidates(rack),
            unseen_pool : NearPools, rack : {rack}] : rack \in NearRacks}

NearInit ==
    /\ BoardStart /\ ScoreStart /\ MoveStart /\ LoadStart /\ WorkerStart /\ PickStart
    /\ GameStart /\ NearStart
    /\ dict_words = MoveWords
    /\ gaddag = build_from_words(MoveWords)
    /\ cdata = MoveData
    /\ answer = NoAnswer

near_rest == <<engine_vars, load_vars, worker_vars, pick_vars, game_vars>>

\* lines 862-915: the task is taken up, the candidate laid
StartNearEndgame(args) ==
    /\ ~endgame.running
    /\ LET placed == place_move(args.grid, args.move.word, args.move.row, args.move.col,
                                args.move.direction = "H")
       IN  endgame' = [running |-> TRUE, done |-> FALSE, args |-> args,
                       grid |-> placed.grid, placed |-> placed.ret,
                       move_bb |-> move_blanks(args.bb_set_list, args.move),
                       your_leave |-> your_leave_of(args.rack, args.move),
                       todo |-> combinations(Len(args.unseen_pool),
                                             opp_rack_size(args.unseen_pool)),
                       ply |-> 2, opp_score |-> 0, placed_2 |-> <<>>, started_on |-> <<>>,
                       net_scores |-> <<>>, trace |-> <<>>]
    /\ UNCHANGED near_rest

\* lines 917-972, after one get_legal_moves call of the loop's pass for the
\* combination at the head of todo has returned ms.  At ply 2 ms are the
\* opponent's replies: the best is kept and, if it scores, laid.  At ply 3
\* ms are our follow-ups: the reply is taken up and the net score appended.
searched(e, ms) ==
    IF e.ply = 2
    THEN LET placed_2 == IF first_score(ms) > 0
                         THEN place_move(e.grid, ms[1].word, ms[1].row, ms[1].col,
                                         ms[1].direction = "H")
                         ELSE [grid |-> e.grid, ret |-> <<>>]
         IN  [e EXCEPT !.ply = 3, !.opp_score = first_score(ms), !.started_on = e.grid,
                       !.grid = placed_2.grid, !.placed_2 = placed_2.ret]
    ELSE LET net == e.args.move.score - e.opp_score + first_score(ms)
         IN  [e EXCEPT !.ply = 2, !.opp_score = 0, !.placed_2 = <<>>,
                       !.grid = undo_move(e.grid, e.placed_2),
                       !.todo = Tail(e.todo),
                       !.net_scores = Append(e.net_scores, net),
                       !.trace = Append(e.trace,
                           [combo_indices |-> Head(e.todo),
                            opp_rack |-> opp_rack_of(e.args.unseen_pool, Head(e.todo)),
                            your_full_rack |->
                                e.your_leave \o drawn_tiles_of(e.args.unseen_pool, Head(e.todo)),
                            opp_score |-> e.opp_score,
                            your_resp_score |-> first_score(ms),
                            started_on |-> e.started_on,
                            searched_on |-> e.grid,
                            net |-> net])]

\* lines 917-972: one get_legal_moves call of the loop, for the opponent's
\* rack or for ours, on the board as it is and with the blanks of move_bb
SearchPly ==
    /\ endgame.running
    /\ endgame.todo # <<>>
    /\ endgame' = searched(endgame,
           get_legal_moves(endgame.grid, cdata, dict_words,
               IF endgame.ply = 2
               THEN opp_rack_of(endgame.args.unseen_pool, Head(endgame.todo))
               ELSE endgame.your_leave \o
                        drawn_tiles_of(endgame.args.unseen_pool, Head(endgame.todo)),
               blanks_1idx(endgame.move_bb)))
    /\ UNCHANGED near_rest

\* lines 974-983: the candidate is taken up and the result returned
ReturnNearEndgame ==
    /\ endgame.running
    /\ endgame.todo = <<>>
    /\ endgame' = [running |-> FALSE, done |-> TRUE, args |-> endgame.args,
                   grid |-> undo_move(endgame.grid, endgame.placed),
                   trace |-> endgame.trace,
                   result |-> [word |-> endgame.args.move.word,
                               row |-> endgame.args.move.row,
                               col |-> endgame.args.move.col,
                               direction |-> endgame.args.move.direction,
                               score |-> endgame.args.move.score,
                               avg_equity |-> mean_net(endgame.net_scores,
                                                       endgame.args.move.score)]]
    /\ UNCHANGED near_rest

NearNext ==
    \/ \E args \in NearArgs : StartNearEndgame(args)
    \/ SearchPly
    \/ ReturnNearEndgame

SpecNearEnd == NearInit /\ [][NearNext]_vars

(***************************************************************************)
(* Claims about the board                                                  *)
(***************************************************************************)

\* C8: undo_move applied to the list place_move returned restores the grid
\* to exactly the state it had before that place_move, also when place_move
\* calls are nested and undone in reverse order.
C8_UndoRestoresGrid ==
    last_call.op = "undo_move" => grid = last_call.expected

\* C8 witness: the inner of two nested place_move calls, one that put at
\* least one tile on the board, has been undone.
C8_Witness ==
    /\ last_call.op = "undo_move"
    /\ Len(last_call.word) > 0
    /\ Len(undo_stack) = 1
    /\ grid # EmptyGrid
    /\ grid # last_call.before

\* A call is invalid when a cell of the word is off the 15x15 grid or the
\* board already holds another letter there.
InvalidPlacement(g, word, row, col, horizontal) ==
    \E i \in 1..Len(word) :
        LET rc == WordCell(row, col, horizontal, i)
        IN  \/ ~is_valid_position(rc[1], rc[2])
            \/ get_tile(g, rc[1], rc[2]) \notin {None, word[i]}

\* C9: place_word and place_move raise whenever a cell of the word lies
\* outside the grid or a letter differs from the letter already on the cell.
C9_RaisesOnInvalid ==
    (/\ last_call.op \in {"place_word", "place_move"}
     /\ InvalidPlacement(last_call.before, last_call.word, last_call.row,
                         last_call.col, last_call.horizontal))
        => last_call.raised

(***************************************************************************)
(* Claims about the GADDAG                                                 *)
(***************************************************************************)

\* C10 as stated: is_word(W) is true for every word W of the word set of
\* length 2 or more, and false for every string that is not in the word set
\* (tree and packed form).
C10_AsStated ==
    answer.asked =>
        /\ (answer.word \in dict_words /\ Len(answer.word) >= 2)
               => (answer.tree /\ answer.compact)
        /\ answer.word \notin dict_words => (~answer.tree /\ ~answer.compact)

\* C10 amended: is_word(W) is true for every word W of the word set of
\* length 3 or more and false for every string of a length other than 2 that
\* is not in the word set; for a string of length 2 it is true exactly when
\* the string is in VALID_TWO_LETTER, whether or not it is in the word set.
C10_IsWord ==
    answer.asked =>
        /\ (answer.word \in dict_words /\ Len(answer.word) >= 3)
               => (answer.tree /\ answer.compact)
        /\ (answer.word \notin dict_words /\ Len(answer.word) # 2)
               => (~answer.tree /\ ~answer.compact)
        /\ Len(answer.word) = 2
               => /\ answer.tree = (answer.word \in VALID_TWO_LETTER)
                  /\ answer.compact = (answer.word \in VALID_TWO_LETTER)

\* C10 witness: a word of the word set of length 3 was looked up and found
\* in both forms, in a GADDAG whose word set lacks another word of length 3.
C10_Witness ==
    /\ answer.asked
    /\ Len(answer.word) = 3
    /\ answer.word \in dict_words
    /\ answer.tree /\ answer.compact
    /\ \E w \in DictUniverse : Len(w) = 3 /\ w \notin dict_words

(***************************************************************************)
(* Claims about move generation.  In a state where cur_rack is not <<>>,   *)
(* moves is the list returned for (grid, cur_rack, blanks_on_board).       *)
(***************************************************************************)

\* A word is valid when it is on the 2-letter list, if it has 2 letters, or
\* in the dictionary, if it has 3 or more.
ValidWord(w) ==
    IF Len(w) = 2 THEN w \in VALID_TWO_LETTER ELSE Len(w) >= 3 /\ w \in dict_words

\* the 1-indexed cell of letter i (1-based) of a play
PlayCell(row, col, dir, i) == IF dir = "H" THEN <<row, col + i - 1>> ELSE <<row + i - 1, col>>

OnBoard(pos) == pos[1] \in 1..BOARD_SIZE /\ pos[2] \in 1..BOARD_SIZE

Occupied(pos) == OnBoard(pos) /\ <<pos[1] - 1, pos[2] - 1>> \in DOMAIN grid

Neighbours(pos) ==
    {<<pos[1] - 1, pos[2]>>, <<pos[1] + 1, pos[2]>>, <<pos[1], pos[2] - 1>>,
     <<pos[1], pos[2] + 1>>}

\* the letters i (1-based) of a play that fall on empty cells
NewLetters(word, row, col, dir) ==
    {i \in 1..Len(word) : ~Occupied(PlayCell(row, col, dir, i))}

\* The word that runs across a play through the cell pos once letter lies
\* there: letter and the unbroken runs of board tiles on either side of it.
WordAcross(pos, letter, dir) ==
    LET line == [k \in 1..BOARD_SIZE |-> IF dir = "H" THEN <<k, pos[2]>> ELSE <<pos[1], k>>]
        at == IF dir = "H" THEN pos[1] ELSE pos[2]
        first == CHOOSE a \in 1..at :
                     /\ \A j \in a..(at - 1) : Occupied(line[j])
                     /\ a > 1 => ~Occupied(line[a - 1])
        last == CHOOSE b \in at..BOARD_SIZE :
                    /\ \A j \in (at + 1)..b : Occupied(line[j])
                    /\ b < BOARD_SIZE => ~Occupied(line[b + 1])
    IN  [k \in 1..(last - first + 1) |->
            IF first + k - 1 = at THEN letter
            ELSE grid[<<line[first + k - 1][1] - 1, line[first + k - 1][2] - 1>>]]

\* every word that a play forms across itself, through a tile it lays, is valid
CrossWordsValid(word, row, col, dir) ==
    \A i \in NewLetters(word, row, col, dir) :
        LET across == WordAcross(PlayCell(row, col, dir, i), word[i], dir)
        IN  Len(across) >= 2 => ValidWord(across)

\* C1: every move returned has a valid main word (on the 2-letter list if
\* it has 2 letters, in the dictionary if it has 3 or more), and every
\* cross-word of 2 or more letters formed by a tile it lays is valid too.
C1_MovesAreValid ==
    cur_rack # <<>> =>
        \A k \in 1..Len(moves) :
            /\ ValidWord(moves[k].word)
            /\ CrossWordsValid(moves[k].word, moves[k].row, moves[k].col,
                               moves[k].direction)

\* C1 witness: a returned move forms a cross-word of 2 or more letters.
C1_Witness ==
    /\ cur_rack # <<>>
    /\ \E k \in 1..Len(moves) :
           \E i \in NewLetters(moves[k].word, moves[k].row, moves[k].col,
                               moves[k].direction) :
               Len(WordAcross(PlayCell(moves[k].row, moves[k].col, moves[k].direction, i),
                              moves[k].word[i], moves[k].direction)) >= 2

\* A play is connected when, on a board with tiles, its word holds a board
\* tile or lays a tile next to one, and on the empty board, covers the
\* centre cell.
Connected(word, row, col, dir) ==
    IF grid = EmptyGrid
    THEN \E i \in 1..Len(word) : PlayCell(row, col, dir, i) = <<CENTER_ROW, CENTER_COL>>
    ELSE \E i \in 1..Len(word) :
             \/ Occupied(PlayCell(row, col, dir, i))
             \/ \E n \in Neighbours(PlayCell(row, col, dir, i)) : Occupied(n)

\* C2: every move returned is connected.
C2_MovesAreConnected ==
    cur_rack # <<>> =>
        \A k \in 1..Len(moves) :
            Connected(moves[k].word, moves[k].row, moves[k].col, moves[k].direction)

\* C2 witness: on a board with tiles, a returned move lays all its letters,
\* so that it is connected only through a neighbouring tile.
C2_Witness ==
    /\ cur_rack # <<>>
    /\ grid # EmptyGrid
    /\ \E k \in 1..Len(moves) :
           NewLetters(moves[k].word, moves[k].row, moves[k].col, moves[k].direction)
               = 1..Len(moves[k].word)

\* how often tile occurs in the list tiles
CountOf(tiles, tile) == Cardinality({i \in 1..Len(tiles) : tiles[i] = tile})

\* The rack can supply the letters the play lays: those it lays beyond the
\* rack's count of their letter are no more than the rack's blanks.
RackSupplies(rack_str, word, row, col, dir) ==
    LET new == NewLetters(word, row, col, dir)
        beyond == {i \in new :
                      Cardinality({j \in new : j <= i /\ word[j] = word[i]})
                          > CountOf(rack_str, word[i])}
    IN  Cardinality(beyond) <= CountOf(rack_str, "?")

\* A legal placement: the word is valid, lies on the grid, agrees with the
\* tiles it spans, lays at least one tile, is the whole run of tiles in its
\* line, is connected, can be laid from the rack, and forms valid cross-words.
LegalPlacement(rack_str, word, row, col, dir) ==
    /\ OnBoard(PlayCell(row, col, dir, 1))
    /\ OnBoard(PlayCell(row, col, dir, Len(word)))
    /\ ~Occupied(PlayCell(row, col, dir, 0))
    /\ ~Occupied(PlayCell(row, col, dir, Len(word) + 1))
    /\ \A i \in 1..Len(word) :
           Occupied(PlayCell(row, col, dir, i))
               => get_tile(grid, PlayCell(row, col, dir, i)[1],
                           PlayCell(row, col, dir, i)[2]) = word[i]
    /\ NewLetters(word, row, col, dir) # {}
    /\ RackSupplies(rack_str, word, row, col, dir)
    /\ CrossWordsValid(word, row, col, dir)
    /\ Connected(word, row, col, dir)

\* The words worth trying: the valid words that the rack can spell with the
\* help of the letters on the board.  No other word has a legal placement,
\* since the tiles a play does not lay are letters of the board.
Spellable(rack_str) ==
    LET on_board == {grid[p] : p \in DOMAIN grid}
        lacks(w) == {i \in 1..Len(w) :
                        /\ w[i] \notin on_board
                        /\ Cardinality({j \in 1..i : w[j] = w[i]}) > CountOf(rack_str, w[i])}
    IN  {w \in dict_words \cup VALID_TWO_LETTER :
            ValidWord(w) /\ Cardinality(lacks(w)) <= CountOf(rack_str, "?")}

\* The cells a connected play must cover one of: the centre on the empty
\* board, else the tiles of the board and the cells next to them.
Touch ==
    IF grid = EmptyGrid THEN {<<CENTER_ROW, CENTER_COL>>}
    ELSE LET tiles == {<<p[1] + 1, p[2] + 1>> : p \in DOMAIN grid}
         IN  {q \in tiles \cup UNION {Neighbours(t) : t \in tiles} : OnBoard(q)}

\* the starts in direction dir of the n-letter plays that cover a cell of cells
StartsCovering(cells, n, dir) ==
    {IF dir = "H" THEN <<c[1], c[2] - i + 1, dir>> ELSE <<c[1] - i + 1, c[2], dir>> :
        c \in cells, i \in 1..n}

\* all legal placements, by trying every word worth trying at every start,
\* in both directions, from which it covers a cell a connected play must cover
BruteForce(rack_str) ==
    LET touch == Touch
    IN  UNION {{<<w, p[1], p[2], p[3]>> :
                   p \in {q \in StartsCovering(touch, Len(w), "H")
                                   \cup StartsCovering(touch, Len(w), "V") :
                             LegalPlacement(rack_str, w, q[1], q[2], q[3])}} :
               w \in Spellable(rack_str)}

\* C3: the (word, start, direction) plays returned are exactly the legal
\* placements found by brute force.
C3_MovesAreAllLegalPlacements ==
    cur_rack # <<>> =>
        {<<moves[k].word, moves[k].row, moves[k].col, moves[k].direction>> :
            k \in 1..Len(moves)} = BruteForce(cur_rack)

\* C3 witness: on a board with tiles, the moves returned hold one that
\* spans a board tile and one that lays all its letters.
C3_Witness ==
    /\ cur_rack # <<>>
    /\ grid # EmptyGrid
    /\ \E k \in 1..Len(moves) :
           NewLetters(moves[k].word, moves[k].row, moves[k].col, moves[k].direction)
               # 1..Len(moves[k].word)
    /\ \E k \in 1..Len(moves) :
           /\ NewLetters(moves[k].word, moves[k].row, moves[k].col, moves[k].direction)
                  = 1..Len(moves[k].word)
           /\ Len(moves[k].word) >= 3

\* the tiles and letters in their sorted order
TileOrder == <<"?">> \o ALPHABET

\* C4: in every move get_legal_moves returns, tiles_used has one entry for
\* each cell of the word that was empty (and so at least one), in word
\* order: '?' where the index is in blanks_used, the letter of the word
\* elsewhere; blanks_used holds indices of such cells only; tiles_used and
\* leave together are the rack as a multiset; and leave is sorted.
C4_TilesUsedAndLeave ==
    cur_rack # <<>> =>
        \A k \in 1..Len(moves) :
            LET m == moves[k]
                new == SelectSeq([i \in 1..Len(m.word) |-> i],
                                 LAMBDA i : i \in NewLetters(m.word, m.row, m.col,
                                                             m.direction))
            IN  /\ Len(new) >= 1
                /\ Len(m.tiles_used) = Len(new)
                /\ \A n \in 1..Len(new) :
                       m.tiles_used[n] = IF (new[n] - 1) \in Range(m.blanks_used)
                                         THEN "?" ELSE m.word[new[n]]
                /\ \A b \in Range(m.blanks_used) : (b + 1) \in Range(new)
                /\ \A t \in Range(TileOrder) :
                       CountOf(m.tiles_used, t) + CountOf(m.leave, t) = CountOf(cur_rack, t)
                /\ \A i, j \in 1..Len(m.leave) :
                       i < j => \E a, b \in 1..27 :
                                    /\ a <= b
                                    /\ TileOrder[a] = m.leave[i]
                                    /\ TileOrder[b] = m.leave[j]

\* C4 witness: a returned move spans a board tile, lays a blank and leaves
\* a tile on the rack, and another lays a blank and a lettered tile.
C4_Witness ==
    /\ cur_rack # <<>>
    /\ \E k \in 1..Len(moves) :
           /\ moves[k].blanks_used # <<>>
           /\ Len(moves[k].tiles_used) < Len(moves[k].word)
           /\ moves[k].leave # <<>>
    /\ \E k \in 1..Len(moves) :
           /\ moves[k].blanks_used # <<>>
           /\ \E n \in 1..Len(moves[k].tiles_used) : moves[k].tiles_used[n] # "?"

(***************************************************************************)
(* Claims about scoring                                                    *)
(***************************************************************************)

\* The tiles of the main word of the scored play, in word order: where each
\* lies, the letter it shows, whether the play lays it, and whether it is a
\* blank (named in blanks_used if laid, listed in blanks_on_board if not).
MainTiles ==
    [i \in 1..Len(scored.word) |->
        LET pos == WordCell(scored.row, scored.col, scored.horizontal, i)
            new == get_tile(scored.g, pos[1], pos[2]) = None
        IN  [pos |-> pos, letter |-> scored.word[i], new |-> new,
             blank |-> IF new THEN (i - 1) \in Range(scored.blanks_used)
                              ELSE \E b \in Range(scored.bb) : <<b[1], b[2]>> = pos]]

\* The tiles of the word that the i-th tile of the play, a tile the play
\* lays, forms across the play: that tile and the unbroken runs of board
\* tiles on either side of it.
CrossTiles(i) ==
    LET pos == WordCell(scored.row, scored.col, scored.horizontal, i)
        t == [pos |-> pos, letter |-> scored.word[i], new |-> TRUE,
              blank |-> (i - 1) \in Range(scored.blanks_used)]
        line == [k \in 1..BOARD_SIZE |->
                    IF scored.horizontal THEN <<k, t.pos[2]>> ELSE <<t.pos[1], k>>]
        at == IF scored.horizontal THEN t.pos[1] ELSE t.pos[2]
        joined(k) == \A j \in 1..BOARD_SIZE :
                        ((k <= j /\ j < at) \/ (at < j /\ j <= k))
                            => get_tile(scored.g, line[j][1], line[j][2]) # None
        run == SelectSeq([k \in 1..BOARD_SIZE |-> k], joined)
    IN  [n \in 1..Len(run) |->
            IF run[n] = at THEN t
            ELSE [pos |-> line[run[n]],
                  letter |-> get_tile(scored.g, line[run[n]][1], line[run[n]][2]),
                  new |-> FALSE,
                  blank |-> \E b \in Range(scored.bb) : <<b[1], b[2]>> = line[run[n]]]]

\* The cross-words of the play: one for each tile it lays that has a board
\* tile next to it across the play, in word order.
CrossWordTiles ==
    LET all == [i \in 1..Len(scored.word) |->
                   IF MainTiles[i].new THEN CrossTiles(i) ELSE <<>>]
    IN  SelectSeq(all, LAMBDA tiles : Len(tiles) >= 2)

LetterPremium(pos) ==
    IF pos \in TRIPLE_LETTER THEN 3 ELSE IF pos \in DOUBLE_LETTER THEN 2 ELSE 1

WordPremium(pos) ==
    IF pos \in TRIPLE_WORD THEN 3 ELSE IF pos \in DOUBLE_WORD THEN 2 ELSE 1

RECURSIVE Product(_, _)
Product(nums, n) == IF n = 0 THEN 1 ELSE nums[n] * Product(nums, n - 1)

\* The word multiplier of a word: the product of the word premiums under the
\* tiles the play lays.
WordFactor(tiles) ==
    Product([k \in 1..Len(tiles) |->
                IF tiles[k].new THEN WordPremium(tiles[k].pos) ELSE 1], Len(tiles))

\* A word's score when the premium of a cell counts only under a tile the
\* play lays, and every other tile counts its face value once.
PremiumScore(tiles) ==
    SumRange([k \in 1..Len(tiles) |->
                 (IF tiles[k].blank THEN 0 ELSE TILE_VALUES[tiles[k].letter])
                     * (IF tiles[k].new THEN LetterPremium(tiles[k].pos) ELSE 1)],
             1, Len(tiles)) * WordFactor(tiles)

\* A word's score with its blank tiles left out of the sum.
BlanklessScore(tiles) ==
    LET counted == SelectSeq(tiles, LAMBDA t : ~t.blank)
    IN  SumRange([k \in 1..Len(counted) |->
                     TILE_VALUES[counted[k].letter]
                         * (IF counted[k].new THEN LetterPremium(counted[k].pos) ELSE 1)],
                 1, Len(counted)) * WordFactor(tiles)

\* the results of the two scorers for the scored play
ScoreResults == {scored.inline, scored.calc}

\* C5: a cell's premium multiplier is applied, to the main word and to the
\* cross-word through the cell, exactly when the cell was empty before the
\* play and is covered by a tile the play lays; tiles already on the board
\* count their face value with multiplier 1.
C5_PremiumOnlyOnNewTiles ==
    scored.done =>
        LET main == PremiumScore(MainTiles)
            cross == [k \in 1..Len(CrossWordTiles) |-> PremiumScore(CrossWordTiles[k])]
        IN  \A res \in ScoreResults :
                /\ res.main_score = main
                /\ [k \in 1..Len(res.crosswords) |-> res.crosswords[k].score] = cross

\* C5 witness: a scored play spans a board tile that lies on a premium cell
\* and lays a tile on another premium cell.
C5_Witness ==
    /\ scored.done
    /\ \E i, j \in 1..Len(scored.word) :
           /\ ~MainTiles[i].new
           /\ LetterPremium(MainTiles[i].pos) * WordPremium(MainTiles[i].pos) > 1
           /\ MainTiles[j].new
           /\ WordPremium(MainTiles[j].pos) > 1
    /\ scored.inline.main_score > 0

\* C6: a blank tile, laid by the play or already on the board, adds 0 to the
\* main word and to every cross-word it is part of, whatever letter it shows
\* and whatever premium its cell has.
C6_BlanksScoreZero ==
    scored.done =>
        LET main == BlanklessScore(MainTiles)
            cross == [k \in 1..Len(CrossWordTiles) |-> BlanklessScore(CrossWordTiles[k])]
        IN  \A res \in ScoreResults :
                /\ res.main_score = main
                /\ [k \in 1..Len(res.crosswords) |-> res.crosswords[k].score] = cross

\* C6 witness: a scored play lays a blank on a premium cell, and one of its
\* cross-words holds a blank that was already on the board.
C6_Witness ==
    /\ scored.done
    /\ \E i \in 1..Len(scored.word) :
           /\ MainTiles[i].new
           /\ MainTiles[i].blank
           /\ LetterPremium(MainTiles[i].pos) * WordPremium(MainTiles[i].pos) > 1
    /\ \E k \in 1..Len(CrossWordTiles) :
           \E n \in 1..Len(CrossWordTiles[k]) :
               ~CrossWordTiles[k][n].new /\ CrossWordTiles[k][n].blank

\* C7: the total of a play holds the bingo bonus exactly once when the play
\* lays as many tiles as a rack holds (RACK_SIZE) and not at all otherwise;
\* the bonus is added after the word multipliers, whatever the cross-words.
C7_BingoBonus ==
    scored.done =>
        \A res \in ScoreResults :
            res.total = res.main_score + CrosswordTotal(res.crosswords)
                            + (IF Cardinality(NewIndices(scored.g, scored.word, scored.row,
                                                         scored.col, scored.horizontal))
                                      = RACK_SIZE
                               THEN BINGO_BONUS ELSE 0)

\* C7 witness: a scored play lays RACK_SIZE tiles, one of them on a word
\* premium, and forms a cross-word.
C7_Witness ==
    /\ scored.done
    /\ Cardinality(NewIndices(scored.g, scored.word, scored.row, scored.col,
                              scored.horizontal)) = RACK_SIZE
    /\ WordFactor(MainTiles) > 1
    /\ Len(scored.inline.crosswords) >= 1
    /\ scored.inline.total = scored.inline.main_score
                                 + CrosswordTotal(scored.inline.crosswords) + BINGO_BONUS

(***************************************************************************)
(* Claims about loading the packed GADDAG                                  *)
(***************************************************************************)

\* the payload length the header of the file declares (0 when the header is
\* cut short)
DeclaredLength(f) == IF Len(f) >= 12 THEN UnpackU32(f, 8) ELSE 0

\* the payload bytes the file holds
PayloadOf(f) == SubSeq(f, 13, Len(f))

\* the child offsets stored in the node at offset off of the payload, for
\* the entries that lie wholly within it
StoredOffsets(data, off) ==
    {UnpackU32(data, off + 2 + 5 * i) :
        i \in {j \in 0..((data[off + 1] % 32) - 1) : off + 6 + 5 * j <= Len(data)}}

\* the offsets of the nodes reached from the root in at most n steps
RECURSIVE NodesWithin(_, _)
NodesWithin(data, n) ==
    IF n = 0
    THEN {0}
    ELSE LET near == NodesWithin(data, n - 1)
         IN  near \cup UNION {StoredOffsets(data, off) : off \in {o \in near : o < Len(data)}}

\* some node reached from the root stores a child offset outside the payload
OffsetOutside(data) ==
    data # <<>> /\ \E off \in NodesWithin(data, Len(data)) : off >= Len(data)

\* C11 as stated: CompactGADDAG.load ends in an error, and returns no
\* GADDAG, when the magic is not CGDG, when the file holds fewer payload
\* bytes than its header declares, or when a child offset lies outside the
\* payload.
C11_LoadRejectsBadFiles ==
    loaded.done =>
        ((\/ file_read(file, 0, 4) # MAGIC
          \/ Len(PayloadOf(file)) < DeclaredLength(file)
          \/ OffsetOutside(PayloadOf(file)))
            => loaded.result.raised # None)

(***************************************************************************)
(* Claims about the Monte-Carlo worker task                                *)
(***************************************************************************)
\* C12: two runs of _worker_eval_candidate on identical arguments (grid,
\* board blanks, candidate, unseen pool, k_sims, seed, early-stop
\* parameters) return identical avg_opp, n_sims, sum and sum_sq, whatever
\* the worker ran before them.
C12_SameArgsSameResult ==
    \A i, j \in DOMAIN w_done :
        w_done[i].args = w_done[j].args =>
            /\ w_done[i].result.avg_opp = w_done[j].result.avg_opp
            /\ w_done[i].result.n_sims = w_done[j].result.n_sims
            /\ w_done[i].result.sum = w_done[j].result.sum
            /\ w_done[i].result.sum_sq = w_done[j].result.sum_sq

\* two runs on the same arguments whose draws gave different opponent
\* scores, the second begun with the generator in a state other than the
\* one its seed stands for
C12_Witness ==
    /\ Len(w_done) = 2
    /\ w_done[1].args = w_done[2].args
    /\ w_done[2].reseeded
    /\ Cardinality(Range(w_done[2].scores)) > 1

\* the sum of the first m numbers of a list
RECURSIVE SumOfFirst(_, _)
SumOfFirst(nums, m) == IF m = 0 THEN 0 ELSE SumOfFirst(nums, m - 1) + nums[m]

\* m is a check point of a run: enough simulations made, a multiple of the
\* check interval, and simulations still to make
CheckPoint(run, m) ==
    /\ m >= run.args.es_min_sims
    /\ m % run.args.es_check_every = 0
    /\ m < run.args.k_sims

\* the standard error of the mean of the first m opponent scores is below
\* the threshold: with mean mu, the variance is the mean of (x - mu)^2 and
\* the standard error is sqrt(variance / m); in whole numbers,
\* 100 * m * sum((m*x - total)^2) < t^2 * m^5 for the threshold t/10
StandardErrorBelow(run, m) ==
    LET total == SumOfFirst(run.scores, m)
        squares == SumOfFirst([k \in 1..m |-> (m * run.scores[k] - total) * (m * run.scores[k] - total)], m)
        t == run.args.es_se_threshold
    IN  100 * squares < t * t * m * m * m * m

\* the check points of a run at which the scores it had collected by then
\* (or, past its end, would not have collected) call for a stop
StopPoints(run) ==
    {m \in 0..Len(run.scores) : CheckPoint(run, m) /\ StandardErrorBelow(run, m)}

\* C13 as stated: a run stops before k_sims simulations iff at some check
\* point the standard error of the mean of the scores so far is below
\* es_se_threshold; it stops at the first such check point and otherwise
\* makes exactly k_sims simulations.
C13_StopsAtFirstLowError ==
    \A i \in DOMAIN w_done :
        LET run == w_done[i]
            n == run.result.n_sims
        IN  /\ n < run.args.k_sims <=> StopPoints(run) # {}
            /\ StopPoints(run) # {} => (n \in StopPoints(run) /\ \A m \in StopPoints(run) : n <= m)
            /\ StopPoints(run) = {} => n = run.args.k_sims

(***************************************************************************)
(* Claims about DadBot.pick_move and its worker tasks                      *)
(***************************************************************************)
\* the call is over
PickEnded == p_call.active /\ p_out.returned

\* the futures the loop waited on and whose wait raised: the task's own
\* exception, or TimeoutError at the deadline
FailedTasks == {k \in 1..Len(p_ctl.seen) : p_ctl.seen[k].how \in {"raised", "timeout"}}

\* the futures whose result the loop collected
Collected == {k \in 1..Len(p_ctl.seen) : p_ctl.seen[k].how = "result"}

\* pick_move returned a move, or None where it holds an exchange
ReturnedAMove ==
    /\ ~p_out.raised
    /\ p_out.move # <<>> \/ p_call.exchange_move

\* C14: when a worker task exceeds its deadline or raises an exception,
\* pick_move does not fail: that candidate is evaluated at its 1-ply equity
\* (score plus leave value), the remaining candidates are still evaluated,
\* and a move is returned; in the mid-game, near-endgame and endgame paths.
C14_FailedTaskGetsOnePlyEquity ==
    PickEnded /\ p_call.pool_made /\ FailedTasks # {}
        => /\ ReturnedAMove
           /\ Len(p_ctl.seen) = Len(p_call.cands)
           /\ \A k \in 1..Len(p_ctl.seen) :
                  /\ p_ctl.seen[k].equity # NegInf
                  /\ k \in FailedTasks
                         => p_ctl.seen[k].equity = whole(p_call.cands[k].equity)

\* C15: if the worker pool cannot be created, the candidate tasks are run
\* one after another in the calling process and pick_move still returns a
\* move instead of propagating the failure.
C15_NoPoolRunsTasksInProcess ==
    PickEnded /\ ~p_call.pool_made
        => /\ ReturnedAMove
           /\ Collected = 1..Len(p_call.cands)

\* the scores of the replies the opponent's rack has once move k of the
\* position is played
ReplyScores(pos, k) ==
    LET m == pos.moves[k]
        after == place_word(pos.grid, m.word, m.row, m.col, m.direction = "H").grid
        blanks == track_blanks(pos.blanks_on_board, m.word, m.row, m.col,
                               m.direction = "H", m.blanks_used)
        replies == get_legal_moves(after, GameData, GameWords, pos.opp_rack, blanks)
    IN  {replies[j].score : j \in 1..Len(replies)} \cup {0}

\* our score for move k of a position less the opponent's best reply score
ScoreLessBestReply(pos, k) ==
    LET scores == ReplyScores(pos, k)
    IN  pos.moves[k].score - (CHOOSE best \in scores : \A s \in scores : s <= best)

\* that difference, for each position with the bag empty and each of its moves
MinimaxEquity ==
    LET all == Positions
    IN  Flatten([p \in 1..Len(all) |->
            <<IF all[p].tiles_in_bag # 0
              THEN <<>>
              ELSE Flatten([k \in 1..Len(all[p].moves) |->
                               <<ScoreLessBestReply(all[p], k)>>])>>])

\* the earliest of the moves in S with the greatest equity
EarliestBest(S, equity) ==
    CHOOSE k \in S : /\ \A j \in S : equity[j] <= equity[k]
                     /\ \A j \in S : j < k => equity[j] < equity[k]

\* C16: with the bag empty, _endgame_pick submits one task for every legal
\* move and returns, among the moves whose result was collected within the
\* budget, the earliest one of greatest equity (our score minus the
\* opponent's best reply score); with no result collected it returns
\* moves[0], the move of highest raw score.
C16_EndgamePickIsEarliestBest ==
    PickEnded /\ p_call.path = "end" /\ p_call.pool_made
        => LET pos_moves == Positions[p_call.pos].moves
           IN  /\ ~p_out.raised
               /\ Len(p_call.work) = Len(pos_moves)
               /\ \A k \in 1..Len(pos_moves) : p_call.work[k].move = move_data(pos_moves[k])
               /\ IF Collected # {}
                  THEN p_out.move = <<pos_moves[EarliestBest(Collected,
                                                             MinimaxEquity[p_call.pos])]>>
                  ELSE /\ p_out.move = <<pos_moves[1]>>
                       /\ \A k \in 1..Len(pos_moves) : pos_moves[k].score <= pos_moves[1].score

\* an endgame call that collected two results of equal, greatest equity and
\* lost a third task, and returned
C16_Witness ==
    /\ PickEnded /\ p_call.path = "end" /\ ~p_out.raised
    /\ Collected # 1..Len(p_call.work)
    /\ \E j, k \in Collected :
           /\ j < k
           /\ MinimaxEquity[p_call.pos][j] = MinimaxEquity[p_call.pos][k]
           /\ \A i \in Collected :
                  MinimaxEquity[p_call.pos][i] <= MinimaxEquity[p_call.pos][k]

\* the equity that the result of task k gives candidate k is value:
\* score - avg_opp + leave value + half the positional adjustment in the
\* mid-game, avg_equity near the endgame, equity in the endgame
IsEquityOfTask(k, value) ==
    LET cand == p_call.cands[k]
        result == p_call.work[k].result
    IN  CASE p_call.path = "mid" ->
                 value.num * 2 * result.avg_opp.den
                     = value.den * (2 * (cand.move.score + cand.lv) * result.avg_opp.den
                                       - 2 * result.avg_opp.num
                                       + p_call.pos_adjs[k] * result.avg_opp.den)
          [] p_call.path = "near" -> value = result.avg_equity
          [] p_call.path = "end" -> value = whole(result.equity)

\* the equity the loop attributed to candidate k
EquityGiven(k) == p_ctl.seen[k].equity

\* a is less than b
Less(a, b) == a.num * b.den < b.num * a.den

\* the move a call returns, as its result follows from the equities given to
\* the candidates by index
MoveByIndex ==
    LET given == {k \in 1..Len(p_ctl.seen) : EquityGiven(k) # NegInf}
        first_best == CHOOSE k \in given :
                          /\ \A j \in given : ~Less(EquityGiven(k), EquityGiven(j))
                          /\ \A j \in given : j < k => Less(EquityGiven(j), EquityGiven(k))
    IN  CASE p_call.path = "mid" ->
                 IF p_call.exchange_move /\ Less(EquityGiven(first_best), whole(0))
                 THEN <<>>
                 ELSE <<p_call.cands[first_best].move>>
          [] p_call.path = "near" ->
                 LET first == CHOOSE r \in 1..Len(p_ctl.results) :
                                  /\ \A j \in 1..Len(p_ctl.results) :
                                         ~Less(p_ctl.results[r].equity, p_ctl.results[j].equity)
                                  /\ \A j \in 1..(r - 1) :
                                         Less(p_ctl.results[j].equity, p_ctl.results[r].equity)
                 IN  <<p_ctl.results[first].move>>
          [] p_call.path = "end" ->
                 IF given = {} THEN <<Positions[p_call.pos].moves[1]>>
                               ELSE <<p_call.cands[first_best].move>>

\* C19: in whatever order the submitted tasks finish, the result of the i-th
\* task is paired with the i-th candidate: the equity given to a candidate
\* is that of its own task's result, and so is the move returned.
C19_ResultsPairedByIndex ==
    /\ \A k \in Collected : IsEquityOfTask(k, EquityGiven(k))
    /\ PickEnded /\ ~p_out.raised
           => /\ p_out.move = MoveByIndex
              /\ p_call.path = "near" =>
                     \A k \in 1..Len(p_ctl.seen) :
                         p_ctl.results[Len(p_ctl.results) - Len(p_ctl.seen) + k]
                             = [move |-> p_call.cands[k].move, equity |-> EquityGiven(k)]

\* a call that returned after its tasks finished in another order than they
\* were submitted in, with results that differ
C19_Witness ==
    /\ PickEnded /\ ~p_out.raised
    /\ Collected = 1..Len(p_call.work)
    /\ \E k \in 1..Len(p_order) : p_order[k] # k
    /\ \E j, k \in Collected : p_call.work[j].result # p_call.work[k].result

(***************************************************************************)
(* Claims about the list of moves.  In a state where cur_rack is not <<>>, *)
(* moves is the list returned for (grid, cur_rack, blanks_on_board), and   *)
(* grid is the board before the move.                                      *)
(***************************************************************************)
\* what find_all_moves_opt captures for the call of the current turn
CtxNow ==
    [grid |-> grid, gdata |-> cdata, words |-> dict_words,
     board_blank_set |-> {<<b[1] - 1, b[2] - 1>> : b \in Range(blanks_on_board)}]

\* the record_move calls of that call which pass the bounds, word and
\* connectivity checks, in order
AdmittedCalls ==
    SelectSeq(record_calls(CtxNow, Counter(SelectSeq(cur_rack, LAMBDA t : t # "?")),
                           Len(SelectSeq(cur_rack, LAMBDA t : t = "?"))),
              LAMBDA call : rm_admits(CtxNow, call) /\ rm_connected(CtxNow, call))

\* the play of a move: its word, start and direction
PlayOf(m) == <<m.word, m.row, m.col, m.direction>>

\* C20: the list find_all_moves_opt returns never holds two moves with the
\* same word, start row, start column and direction.
C20_NoPlayTwice ==
    \A j, k \in 1..Len(moves) : j # k => PlayOf(moves[j]) # PlayOf(moves[k])

\* C20 witness: the search reached one play by several record_move calls,
\* with different blank assignments, and returned it.
ReachedTwice(admitted) ==
    \E i, j \in 1..Len(admitted) :
        /\ i < j
        /\ rm_key(admitted[i]) = rm_key(admitted[j])
        /\ admitted[i].blanks_used # admitted[j].blanks_used
        /\ \E k \in 1..Len(moves) :
               PlayOf(moves[k]) = <<admitted[i].word_chars, admitted[i].start_r0 + 1,
                                    admitted[i].start_c0 + 1,
                                    IF admitted[i].horiz THEN "H" ELSE "V">>

C20_Witness == cur_rack # <<>> /\ ReachedTwice(Listed(AdmittedCalls))

\* C21: the list returned is in non-increasing order of score, so its first
\* move has the greatest score of all.
C21_SortedByScore ==
    /\ \A k \in 1..(Len(moves) - 1) : moves[k].score >= moves[k + 1].score
    /\ \A k \in 1..Len(moves) : moves[1].score >= moves[k].score

\* C21 witness: the search recorded a play before one of higher score.
RecordedOutOfOrder(admitted) ==
    \E i, j \in 1..Len(admitted) :
        /\ i < j
        /\ rm_move(CtxNow, admitted[i]).score < rm_move(CtxNow, admitted[j]).score
        /\ \A h \in 1..(j - 1) : rm_key(admitted[h]) # rm_key(admitted[j])

C21_Witness == cur_rack # <<>> /\ RecordedOutOfOrder(Listed(AdmittedCalls))

\* the cell before the first cell of a move (i = 0) and the one after its
\* last (i = Len + 1) are off the board or empty
EndsFree(m) ==
    \A i \in {0, Len(m.word) + 1} :
        ~OnBoard(PlayCell(m.row, m.col, m.direction, i))
            \/ ~Occupied(PlayCell(m.row, m.col, m.direction, i))

\* C22: for every move returned, the cell before the word's first cell and
\* the cell after its last, along its direction, are off the board or empty
\* on the board before the move: the word is the whole run of tiles.
C22_WordIsWholeRun ==
    cur_rack # <<>> => \A k \in 1..Len(moves) : EndsFree(moves[k])

\* C22 witness: one returned move starts with a tile of the board and goes
\* on from it, and another puts tiles in front of a tile of the board and
\* ends with it.
C22_Witness ==
    /\ cur_rack # <<>>
    /\ \E k \in 1..Len(moves) :
           /\ Occupied(PlayCell(moves[k].row, moves[k].col, moves[k].direction, 1))
           /\ ~Occupied(PlayCell(moves[k].row, moves[k].col, moves[k].direction,
                                  Len(moves[k].word)))
    /\ \E k \in 1..Len(moves) :
           /\ ~Occupied(PlayCell(moves[k].row, moves[k].col, moves[k].direction, 1))
           /\ Occupied(PlayCell(moves[k].row, moves[k].col, moves[k].direction,
                                 Len(moves[k].word)))

\* C24: for every move produced by find_all_moves_opt, the score and the list
\* of cross-words (word, start, orientation and score, in order) of the
\* generator's score_move are those calculate_move_score returns for the same
\* board before the move, word, start, direction, blanks_used and
\* board_blanks.
C24_InlineScoreIsCalculateMoveScore ==
    cur_rack # <<>> =>
        \A k \in 1..Len(moves) :
            LET calc == calculate_move_score(grid, moves[k].word, moves[k].row, moves[k].col,
                                             moves[k].direction = "H", moves[k].blanks_used,
                                             blanks_on_board)
            IN  /\ moves[k].score = calc.total
                /\ moves[k].crosswords = calc.crosswords

\* C24 witness: a move that lays a blank and forms a cross-word was
\* produced on a board that holds a blank.
C24_Witness ==
    /\ cur_rack # <<>>
    /\ blanks_on_board # <<>>
    /\ \E k \in 1..Len(moves) : moves[k].blanks_used # <<>> /\ moves[k].crosswords # <<>>

\* the ways of laying the new letters of move m from the rack: the sets of
\* letters (1-based) a blank stands for
BlankWays(m, rack_str) ==
    {bl \in SUBSET NewLetters(m.word, m.row, m.col, m.direction) :
        /\ Cardinality(bl) <= CountOf(rack_str, "?")
        /\ \A i \in NewLetters(m.word, m.row, m.col, m.direction) \ bl :
               Cardinality({j \in NewLetters(m.word, m.row, m.col, m.direction) \ bl :
                               m.word[j] = m.word[i]})
                   <= CountOf(rack_str, m.word[i])}

\* the score of move m when the blanks stand for the letters bl
ScoreOfWay(m, bl) ==
    calculate_move_score(grid, m.word, m.row, m.col, m.direction = "H",
                         SelectSeq([i \in 1..Len(m.word) |-> i - 1], LAMBDA i : i + 1 \in bl),
                         blanks_on_board).total

\* C25: for every move returned from a rack that holds a blank, blanks_used
\* is a way of laying the new letters from the rack, and no other way of
\* laying them scores more than the score reported.
C25_BestBlankAssignment ==
    (cur_rack # <<>> /\ "?" \in Range(cur_rack)) =>
        \A k \in 1..Len(moves) :
            /\ {i + 1 : i \in Range(moves[k].blanks_used)} \in BlankWays(moves[k], cur_rack)
            /\ \A bl \in BlankWays(moves[k], cur_rack) :
                   ScoreOfWay(moves[k], bl) <= moves[k].score

\* C23: find_best_score_opt returns the highest score among the moves
\* find_all_moves_opt returns for the same grid, rack and board blanks, with
\* the word, start and direction of a move of that list that has that score;
\* when the list is empty it returns (0, None, 0, 0, None).
C23_BestScoreIsTopOfAllMoves ==
    best_found # <<>> =>
        IF moves = <<>>
        THEN best_found = NoBest
        ELSE /\ \A k \in 1..Len(moves) : moves[k].score <= best_found.score
             /\ \E k \in 1..Len(moves) :
                    /\ PlayOf(moves[k]) = <<best_found.word, best_found.row, best_found.col, best_found.direction>>
                    /\ moves[k].score = best_found.score

(***************************************************************************)
(* Claims about the packed GADDAG.  In a state where cdata is not <<>>,    *)
(* gaddag is the tree built from dict_words and cdata the buffer           *)
(* build_from_gaddag made from it; neither changes afterwards, and the     *)
(* buffer is examined in the state the build leaves.                       *)
(***************************************************************************)
\* where the record after the one at offset starts; Len(data) once the
\* records end with the buffer, Len(data) + 1 when a record runs past it
NextRecord(data) ==
    [offset \in 0..(Len(data) + 1) |->
        IF offset >= Len(data)
        THEN offset
        ELSE IF offset + 1 + 5 * (Byte(data, offset) % 32) > Len(data)
             THEN Len(data) + 1
             ELSE offset + 1 + 5 * (Byte(data, offset) % 32)]

\* the offsets met reading the records one after the other from offset 0:
\* reached holds the first 2^k of them and jump goes 2^k records ahead
RECURSIVE RecordsFrom(_, _, _)
RecordsFrom(data, jump, reached) ==
    IF reached \cap {Len(data), Len(data) + 1} # {}
    THEN reached
    ELSE RecordsFrom(data, [offset \in DOMAIN jump |-> jump[jump[offset]]],
                     reached \cup {jump[offset] : offset \in reached})

\* the offsets at which the node records of the buffer start
RecordStarts(data) == RecordsFrom(data, NextRecord(data), {0}) \cap 0..(Len(data) - 1)

\* the records end where the buffer ends
RecordsFill(data) == Len(data) \in RecordsFrom(data, NextRecord(data), {0})

\* the record at start is well formed: at most 27 child entries, of strictly
\* ascending char index, each pointing inside the buffer at the first byte
\* of a record
RecordWellFormed(data, starts, start) ==
    LET count == Byte(data, start) % 32
        ci(i) == Byte(data, start + 1 + (i - 1) * 5)
        child(i) == UnpackU32(data, start + 2 + (i - 1) * 5)
    IN  /\ count <= 27
        /\ start + 1 + 5 * count <= Len(data)
        /\ \A i \in 1..count : ci(i) \in 0..26
        /\ \A i \in 1..(count - 1) : ci(i) < ci(i + 1)
        /\ \A i \in 1..count : child(i) < Len(data) /\ child(i) \in starts

\* every record of the buffer is well formed
AllRecordsWellFormed(data, starts) == \A start \in starts : RecordWellFormed(data, starts, start)

\* the number of children of a node of the tree
TreeChildCount(t, node) == Cardinality({ch \in Range(ALPHA27) : Append(node, ch) \in t.nodes})

\* C26: in the buffer build_from_gaddag produces the root's record is at
\* offset 0, every record lists its child entries in strictly ascending
\* char-index order, the number of entries of a node's record is the low 5
\* bits of its flag byte and the number of the node's children (at most 27),
\* and every child offset is below the buffer's length and is the first byte
\* of a record.
C26_PackedLayout ==
    (cdata # <<>> /\ ~answer.asked) =>
        /\ RecordsFill(cdata)
        /\ AllRecordsWellFormed(cdata, RecordStarts(cdata))
        /\ \A node \in gaddag.nodes :
               /\ compact_get_node(cdata, node) >= 0
               /\ child_count(cdata, compact_get_node(cdata, node)) = TreeChildCount(gaddag, node)
               /\ Len(iter_children(cdata, compact_get_node(cdata, node)))
                      = TreeChildCount(gaddag, node)
        /\ compact_get_node(cdata, <<>>) = 0

\* C26 witness: a buffer built from a dictionary with words of 3 letters,
\* whose root has 20 children or more and holds a child offset that takes
\* more than one byte.
C26_Witness ==
    /\ cdata # <<>>
    /\ ~answer.asked
    /\ \E w \in dict_words : Len(w) >= 3
    /\ child_count(cdata, 0) >= 20
    /\ \E k \in 1..child_count(cdata, 0) : iter_children(cdata, 0)[k][2] > 255

\* the paths asked: every path of the tree, every such path with one more
\* symbol, and every string of up to MaxQueryLen symbols of A, C, T and '+'
PathsAsked ==
    gaddag.nodes
        \cup {Append(node, ch) : node \in gaddag.nodes, ch \in Range(ALPHA27)}
        \cup UNION {[1..n -> QueryLetters \cup {DELIMITER}] : n \in 0..MaxQueryLen}

\* C27: the packed GADDAG built from a tree GADDAG agrees with it on has_path
\* and on is_complete_word, for every path over A-Z and '+'.
C27_PackedAgreesWithTree ==
    (cdata # <<>> /\ ~answer.asked) =>
        \A path \in PathsAsked :
            /\ compact_has_path(cdata, path) = has_path(gaddag, path)
            /\ compact_is_complete_word(cdata, path) = is_complete_word(gaddag, path)

\* C27 witness: the tree has a path that is a complete word, a path that is
\* no complete word, both three symbols deep, and the paths asked include
\* one it does not have.
C27_Witness ==
    /\ cdata # <<>>
    /\ ~answer.asked
    /\ \E path \in PathsAsked : Len(path) >= 3 /\ is_complete_word(gaddag, path)
    /\ \E path \in PathsAsked :
           Len(path) >= 3 /\ has_path(gaddag, path) /\ ~is_complete_word(gaddag, path)
    /\ \E path \in PathsAsked : ~has_path(gaddag, path)


(***************************************************************************)
(* Claims about play_game                                                  *)
(***************************************************************************)

\* how many of a tile a list holds
Held(tiles, tile) == Cardinality({k \in 1..Len(tiles) : tiles[k] = tile})

\* how many of a tile lie on the board, a cell listed in blanks_on_board
\* counting as "?"
LaidOnBoard(tile) ==
    Cardinality({p \in DOMAIN grid :
                    IF \E k \in 1..Len(blanks_on_board) :
                          /\ blanks_on_board[k][1] = p[1] + 1
                          /\ blanks_on_board[k][2] = p[2] + 1
                    THEN tile = "?"
                    ELSE tile = grid[p]})

\* the board, the bag and the two racks together are the tile distribution
TilesConserved ==
    \A tile \in Range(DISTRIBUTION_KEYS) :
        LaidOnBoard(tile) + Held(game.bag, tile) + Held(game.racks[1], tile)
            + Held(game.racks[2], tile) = TILE_DISTRIBUTION[tile]

\* two lists hold the same tiles
SameTiles(xs, ys) == \A tile \in Range(DISTRIBUTION_KEYS) : Held(xs, tile) = Held(ys, tile)

\* play_game is between two statements of its loop that move tiles: at the
\* top of a turn, at the pick_move call, at its return, or at the end
GameAtRest == game.pc \in {"top", "chosen", "over"} \/ (game.pc = "pick" /\ ~bot.pending)

\* C18: in every state of play_game the tiles on the board (cells listed in
\* blanks_on_board counted as "?"), the bag and the two racks are together
\* exactly the 100-tile distribution; so at every pick_move call the pool
\* _compute_unseen(grid, rack, blanks_on_board) gives is the bag plus the
\* opponent's rack, and the opponent's rack when the bag is empty.
C18_TilesConserved ==
    GameAtRest =>
        /\ TilesConserved
        /\ game.pc = "pick" =>
              LET unseen == compute_unseen(grid, game.racks[game.player_idx + 1],
                                           blanks_on_board)
                  opp_rack == game.racks[2 - game.player_idx]
              IN  /\ SameTiles(unseen, game.bag \o opp_rack)
                  /\ game.bag = <<>> => SameTiles(unseen, opp_rack)

\* C18 witness: a play has emptied the bag, its tiles are on the board and
\* its player has drawn, and the opponent, who still holds tiles, is asked
\* for a move
C18_Witness ==
    /\ game.pc = "pick"
    /\ game.bag = <<>>
    /\ game.emptied_by # <<>>
    /\ Len(game.asked) = 1
    /\ game.racks[2 - game.player_idx] # <<>>
    /\ grid # GameGrid(game.taken_up)


\* C28: when pick_move of MyBot, BotFastSim or BotEndgameExpert returns,
\* the Board handed in by play_game holds exactly the tiles it held at the
\* call, although the bot has laid candidate moves on it and taken them off
\* during its search.
C28_SearchRestoresBoard ==
    (game.pc = "chosen" /\ bot.engine \in SearchingBots) => grid = bot.at_call

\* C28 witness: one of the three bots returns a move after a search that
\* laid two candidates on the board and took them off
C28_Witness ==
    /\ game.pc = "chosen"
    /\ bot.engine \in SearchingBots
    /\ Cardinality(bot.searched) >= 2
    /\ bot.chosen # <<>>

\* C29: every game play_game runs ends: whatever the engines return, a move
\* offered or a pass, after finitely many turns the game reaches
\* _game_result, by four consecutive passes or by the countdown of the
\* final turns that starts when a play empties the bag.
C29_GameEnds ==
    <>(/\ game.pc = "over"
       /\ \/ game.consecutive_passes >= 4
          \/ (game.emptied_by # <<>> /\ game.final_turns_left = <<0>>))

\* C29 witness: a game has ended by four passes in a row after a play that
\* left tiles in the bag
C29_Witness ==
    /\ game.pc = "over"
    /\ game.consecutive_passes >= 4
    /\ grid # GameGrid(game.taken_up)
    /\ game.emptied_by = <<>>

\* the players asked for a move since a play emptied the bag: the opponent
\* of the player who emptied it, then that player
FinalOrder == <<1 - game.emptied_by[1], game.emptied_by[1]>>

\* C30: once a play has emptied the bag each player is asked for exactly one
\* more move, first the opponent of the player who emptied the bag and then
\* that player, whether they play or pass, and the game then ends with no
\* further pick_move call.
C30_TwoFinalTurns ==
    /\ [](game.emptied_by # <<>> =>
             /\ Len(game.asked) <= 2
             /\ game.asked = SubSeq(FinalOrder, 1, Len(game.asked)))
    /\ (game.emptied_by # <<>>)
          ~> (game.pc = "over" /\ game.emptied_by # <<>> /\ game.asked = FinalOrder)

\* C30 witness: the game has ended after the two final turns, of which the
\* first was a play and the second a pass
C30_Witness ==
    /\ game.pc = "over"
    /\ game.emptied_by # <<>>
    /\ game.asked = FinalOrder
    /\ game.consecutive_passes = 1

(***************************************************************************)
(* Claims about _worker_eval_near_endgame                                  *)
(***************************************************************************)

\* the highest score among the moves ms, 0 if there is none
HighestScore(ms) ==
    IF ms = <<>>
    THEN 0
    ELSE CHOOSE s \in {ms[k].score : k \in 1..Len(ms)} :
             \A k \in 1..Len(ms) : ms[k].score <= s

\* the score of our best move with rack on grid g, whose blanks are on the
\* cells bb_set
BestFollowUp(g, bb_set, rack) ==
    HighestScore(get_legal_moves(g, MoveData, MoveWords, rack, blanks_1idx(bb_set)))

\* net is our_score - best_opponent_reply + our_best_followup for one of the
\* opponent's best replies among replies, made on grid g with blanks bb_set
ThreePlyNet(net, our_score, g, bb_set, replies, our_rack) ==
    IF HighestScore(replies) = 0
    THEN net = our_score + BestFollowUp(g, bb_set, our_rack)
    ELSE \E k \in 1..Len(replies) :
             /\ replies[k].score = HighestScore(replies)
             /\ net = our_score - replies[k].score
                          + BestFollowUp(place_move(g, replies[k].word, replies[k].row,
                                                    replies[k].col,
                                                    replies[k].direction = "H").grid,
                                         move_blanks(bb_set, replies[k]), our_rack)

\* the board and its blanks after the candidate of a finished task is laid
PostCandidate(a) ==
    [grid |-> place_move(a.grid, a.move.word, a.move.row, a.move.col,
                         a.move.direction = "H").grid,
     bb_set |-> move_blanks(a.bb_set_list, a.move)]

\* the index subsets of the pool that are opponent racks
OppSubsets(unseen_pool) ==
    {S \in SUBSET (0..(Len(unseen_pool) - 1)) :
        Cardinality(S) = (IF Len(unseen_pool) < RACK_SIZE THEN Len(unseen_pool) ELSE RACK_SIZE)}

\* C17: for a bag-emptying candidate, _worker_eval_near_endgame evaluates
\* every index subset of the unseen pool U of size min(7, |U|) exactly once
\* as the opponent's rack, with our draw being exactly the complementary
\* tiles of U; every subset is evaluated starting from the same
\* post-candidate board; for each it computes our_score minus the
\* opponent's best reply plus our best follow-up, the follow-up being
\* searched on the board with the opponent's best reply placed (on the
\* post-candidate board when the opponent's best score is 0); and it returns
\* the arithmetic mean over all subsets.
C17_ExhaustiveThreePly ==
    endgame.done =>
        LET a == endgame.args
            tr == endgame.trace
            post == PostCandidate(a)
            leave == remove_used(a.rack, a.move.tiles_used, 1)
        IN  /\ Len(tr) = Cardinality(OppSubsets(a.unseen_pool))
            /\ {Range(tr[i].combo_indices) : i \in 1..Len(tr)} = OppSubsets(a.unseen_pool)
            /\ \A i \in 1..Len(tr) :
                /\ Len(tr[i].combo_indices) = Cardinality(Range(tr[i].combo_indices))
                /\ \A tile \in Range(a.unseen_pool) \cup Range(a.rack) :
                    /\ Held(tr[i].opp_rack, tile) =
                           Cardinality({j \in Range(tr[i].combo_indices) :
                                            a.unseen_pool[j + 1] = tile})
                    /\ Held(tr[i].your_full_rack, tile) =
                           Held(leave, tile) + Held(a.unseen_pool, tile)
                               - Held(tr[i].opp_rack, tile)
                /\ tr[i].started_on = post.grid
                /\ tr[i].opp_score = 0 => tr[i].searched_on = post.grid
                /\ ThreePlyNet(tr[i].net, a.move.score, post.grid, post.bb_set,
                               get_legal_moves(post.grid, MoveData, MoveWords,
                                               tr[i].opp_rack, blanks_1idx(post.bb_set)),
                               tr[i].your_full_rack)
            /\ endgame.result.avg_equity =
                   true_div(SumRange([i \in 1..Len(tr) |-> tr[i].net], 1, Len(tr)), Len(tr))

====
